---------------------------- MODULE Spec2Model ----------------------------
(***************************************************************************)
(* go-proxyproto: the PROXY protocol codec (v1 text, v2 binary) and the    *)
(* connection wrapper that consumes the header lazily, once, on the first  *)
(* Read / LocalAddr / RemoteAddr.                                          *)
(*                                                                         *)
(* Bytes are naturals 0..255, byte strings are sequences of bytes.  The    *)
(* peer writes its whole stream and closes; the transport hands the stream *)
(* to the reader in segments (the split is chosen in Init).                *)
(***************************************************************************)
EXTENDS Naturals, Integers, Sequences, FiniteSets, TLC

\* ------------------------------------------------------------------ bounds
\* Largest size of the segments the transport delivers after the first one.
MaxSeg == 2
\* Calls (Read / LocalAddr / RemoteAddr) made on one connection.
MaxCalls == 2
\* Size of the small caller buffer handed to Conn.Read (the large one is BufSize).
MaxReadLen == 2
\* Last instant of the clock.
MaxTime == 4
\* Largest header timeout a connection is configured with.
MaxTimeout == 2
\* Most connections that reach a listener.
MaxConns == 3
\* Most turns of the accept loop in one Serve call, and most Serve calls.
MaxTurns == 3
MaxServes == 2

\* --------------------------------------------------------------- constants
\* bufio.NewReader's buffer size (bufio.defaultBufSize).
BufSize == 4096
v2AddrLenInet == 12
v2AddrLenInet6 == 36
v2AddrLenUnix == 216
v2TlvHeaderLen == 3
\* uint16 arithmetic wraps at 2^16.
U16 == 65536

SIGV1 == <<80, 82, 79, 88, 89>>
SIGV2 == <<13, 10, 13, 10, 0, 13, 10, 81, 85, 73, 84, 10>>
CRLF == <<13, 10>>
SEPARATOR == 32

\* ProtocolVersionAndCommand values.
CmdLOCAL == 32
CmdPROXY == 33
\* AddressFamilyAndProtocol values.
UNSPEC == 0
TCPv4 == 17
UDPv4 == 18
TCPv6 == 33
UDPv6 == 34
UnixStream == 49
UnixDatagram == 50

supportedCommand == {CmdLOCAL, CmdPROXY}
supportedTransportProtocol == {UNSPEC, TCPv4, UDPv4, TCPv6, UDPv6, UnixStream, UnixDatagram}

IsLocal(pvc) == pvc = CmdLOCAL
IsIPv4(ap) == ap \div 16 = 1
IsIPv6(ap) == ap \div 16 = 2
IsUnix(ap) == ap \div 16 = 3

\* Policy values.
PolicyUSE == "USE"
PolicyIGNORE == "IGNORE"
PolicyREJECT == "REJECT"
PolicyREQUIRE == "REQUIRE"
Policies == {PolicyUSE, PolicyIGNORE, PolicyREJECT, PolicyREQUIRE}

\* ----------------------------------------------------------------- helpers
Min(a, b) == IF a < b THEN a ELSE b

Drop(s, n) == SubSeq(s, n + 1, Len(s))

Take(s, n) == SubSeq(s, 1, Min(n, Len(s)))

HasPrefix(s, p) == Len(s) >= Len(p) /\ SubSeq(s, 1, Len(p)) = p

HasSuffix(s, p) == Len(s) >= Len(p) /\ SubSeq(s, Len(s) - Len(p) + 1, Len(s)) = p

\* Index of the first occurrence of byte b in s, 0 when absent.
IndexByte(s, b) ==
    IF \E i \in 1..Len(s) : s[i] = b
    THEN CHOOSE i \in 1..Len(s) : s[i] = b /\ \A j \in 1..(i - 1) : s[j] # b
    ELSE 0

RECURSIVE Flatten(_)
Flatten(ss) == IF ss = <<>> THEN <<>> ELSE Head(ss) \o Flatten(Tail(ss))

\* strings.Split(s, sep) for a one-byte separator.
RECURSIVE Split(_, _)
Split(s, sep) ==
    LET i == IndexByte(s, sep)
    IN  IF i = 0 THEN <<s>> ELSE <<SubSeq(s, 1, i - 1)>> \o Split(Drop(s, i), sep)

IsDigit(b) == b >= 48 /\ b <= 57

RECURSIVE DecVal(_)
DecVal(s) == IF s = <<>> THEN 0 ELSE 10 * DecVal(SubSeq(s, 1, Len(s) - 1)) + (s[Len(s)] - 48)

\* ------------------------------------------------------- the byte reader
\* A reader is [buf, segs, dry]: buf holds the bytes bufio has read from the
\* connection and not yet handed out, segs the segments the transport holds
\* for it, dry whether a read of the connection found nothing to deliver (on
\* a finished stream that is the end of the stream).
NewReader(segs) == [buf |-> <<>>, segs |-> segs, dry |-> FALSE]

\* One Read of the underlying connection into a slice of capacity max.
connRead(segs, max) ==
    IF segs = <<>> \/ max = 0
    THEN [data |-> <<>>, segs |-> segs, eof |-> segs = <<>>]
    ELSE LET s == Head(segs)
             k == Min(max, Len(s))
         IN  [data |-> SubSeq(s, 1, k),
              segs |-> IF k = Len(s) THEN Tail(segs) ELSE <<Drop(s, k)>> \o Tail(segs),
              eof  |-> FALSE]

\* bufio.Reader.fill: one read of the connection into the buffer's free space.
fill(r) ==
    LET got == connRead(r.segs, BufSize - Len(r.buf))
    IN  [r |-> [buf |-> r.buf \o got.data, segs |-> got.segs, dry |-> r.dry \/ got.eof],
         eof |-> got.eof]

RECURSIVE bufPeek(_, _)
\* Peek after one fill f: a failed read ends it, otherwise it looks again.
peekFilled(f, n) ==
    IF f.eof THEN [r |-> f.r, ok |-> FALSE, data |-> f.r.buf] ELSE bufPeek(f.r, n)

\* bufio.Reader.Peek(n): fills until n bytes are buffered, the buffer is full
\* or the connection fails; consumes nothing.
bufPeek(r, n) ==
    IF Len(r.buf) >= n THEN [r |-> r, ok |-> TRUE, data |-> SubSeq(r.buf, 1, n)]
    ELSE IF Len(r.buf) >= BufSize THEN [r |-> r, ok |-> FALSE, data |-> r.buf]
    ELSE peekFilled(fill(r), n)

RECURSIVE bufReadByte(_)
readByteFilled(f) ==
    IF f.eof THEN [r |-> f.r, ok |-> FALSE, b |-> 0] ELSE bufReadByte(f.r)

\* bufio.Reader.ReadByte.
bufReadByte(r) ==
    IF r.buf # <<>>
    THEN [r |-> [r EXCEPT !.buf = Tail(r.buf)], ok |-> TRUE, b |-> Head(r.buf)]
    ELSE readByteFilled(fill(r))

RECURSIVE bufReadString(_, _)
\* ReadString after one fill f, with pre the bytes collected so far.
readStringFilled(pre, f, delim) ==
    IF f.eof THEN [r |-> f.r, ok |-> FALSE, line |-> pre]
    ELSE [bufReadString(f.r, delim) EXCEPT !.line = pre \o @]

\* bufio.Reader.ReadString(delim): everything up to and including the first
\* delim, or everything up to the end of the stream (ok = FALSE).
bufReadString(r, delim) ==
    LET i == IndexByte(r.buf, delim)
    IN  IF i # 0
        THEN [r |-> [r EXCEPT !.buf = Drop(r.buf, i)], ok |-> TRUE, line |-> SubSeq(r.buf, 1, i)]
        ELSE readStringFilled(r.buf, fill([r EXCEPT !.buf = <<>>]), delim)

\* Read on an empty buffer after one fill f: hands out what the fill brought.
readFilled(f, n) ==
    [r |-> [f.r EXCEPT !.buf = Drop(f.r.buf, Min(n, Len(f.r.buf)))],
     data |-> Take(f.r.buf, n), eof |-> f.eof]

\* Read on an empty buffer into a slice at least as large as the buffer: the
\* connection is read directly into the slice.
readDirect(r, got) ==
    [r |-> [r EXCEPT !.segs = got.segs, !.dry = @ \/ got.eof], data |-> got.data, eof |-> got.eof]

\* bufio.Reader.Read(p) with len(p) = n: hands out buffered bytes first; on an
\* empty buffer it reads the connection once (directly into p when p is at
\* least as large as the buffer).
bufRead(r, n) ==
    IF n = 0 THEN [r |-> r, data |-> <<>>, eof |-> FALSE]
    ELSE IF r.buf # <<>>
    THEN [r |-> [r EXCEPT !.buf = Drop(r.buf, Min(n, Len(r.buf)))],
          data |-> Take(r.buf, n), eof |-> FALSE]
    ELSE IF n >= BufSize THEN readDirect(r, connRead(r.segs, n))
    ELSE readFilled(fill(r), n)

RECURSIVE bufDiscard(_, _)
discardFilled(f, n) == IF f.eof THEN f.r ELSE bufDiscard(f.r, n)

\* bufio.Reader.Discard(n).
bufDiscard(r, n) ==
    IF n = 0 THEN r
    ELSE IF r.buf # <<>>
    THEN bufDiscard([r EXCEPT !.buf = Drop(r.buf, Min(n, Len(r.buf)))], n - Min(n, Len(r.buf)))
    ELSE discardFilled(fill(r), n)

RECURSIVE readFull(_, _, _)
\* io.ReadFull after one Read got: a failed read ends it short, otherwise it
\* goes on for the bytes still missing.
readFullGot(got, n, limit) ==
    IF got.eof THEN [r |-> got.r, ok |-> FALSE, data |-> <<>>]
    ELSE [readFull(got.r, n - Len(got.data), limit - Len(got.data)) EXCEPT
              !.data = got.data \o @]

\* binary.Read(io.LimitReader(reader, limit), ..) of a value of n bytes:
\* io.ReadFull through the limit; short when the limit or the stream ends.
readFull(r, n, limit) ==
    IF n = 0 THEN [r |-> r, ok |-> TRUE, data |-> <<>>]
    ELSE IF limit = 0 THEN [r |-> r, ok |-> FALSE, data |-> <<>>]
    ELSE readFullGot(bufRead(r, Min(n, limit)), n, limit)

\* ------------------------------------------------------------ header value
\* The header interface value held by a connection; NilHeader is the nil
\* interface.  Addresses are byte strings, <<>> for a nil net.IP.
NilHeader ==
    [version |-> 0, command |-> 0, transportProtocol |-> UNSPEC,
     sourceAddress |-> <<>>, destinationAddress |-> <<>>,
     sourcePort |-> 0, destinationPort |-> 0]

initVersion1 == [NilHeader EXCEPT !.version = 1, !.command = CmdPROXY]

\* A net.Addr: the TCPAddr the header methods build, or the socket's own.
TCPAddr(ip, port) == [ip |-> ip, port |-> port]

HeaderRemoteAddr(h) == TCPAddr(h.sourceAddress, h.sourcePort)

HeaderLocalAddr(h) == TCPAddr(h.destinationAddress, h.destinationPort)

\* -------------------------------------------------------------- v1 codec
\* strconv.Atoi: an optional sign and decimal digits.
Atoi(s) ==
    LET signed == s # <<>> /\ s[1] \in {43, 45}
        digits == IF signed THEN Tail(s) ELSE s
    IN  IF digits = <<>> \/ \E i \in 1..Len(digits) : ~IsDigit(digits[i])
        THEN [ok |-> FALSE, val |-> 0]
        ELSE [ok |-> TRUE,
              val |-> IF signed /\ s[1] = 45 THEN 0 - DecVal(digits) ELSE DecVal(digits)]

\* The range test reads the still-zero uint16 result, not the parsed integer,
\* so it never fires; the integer is then truncated to 16 bits.
parseV1PortNumber(portStr) ==
    LET a == Atoi(portStr)
        port == 0
    IN  IF ~a.ok THEN [port |-> 0, err |-> "ErrAtoi"]
        ELSE [port |-> a.val % U16,
              err  |-> IF port < 0 \/ port > 65535 THEN "ErrInvalidPortNumber" ELSE "nil"]

\* net.ParseIP on the literals the model uses: dotted-quad IPv4, and the
\* IPv6 form "::h" (h one to four hex digits).  Anything else is nil.
IsHex(b) == IsDigit(b) \/ (b >= 97 /\ b <= 102) \/ (b >= 65 /\ b <= 70)

HexVal(b) == IF IsDigit(b) THEN b - 48 ELSE IF b >= 97 THEN b - 87 ELSE b - 55

RECURSIVE HexNum(_)
HexNum(s) == IF s = <<>> THEN 0 ELSE 16 * HexNum(SubSeq(s, 1, Len(s) - 1)) + HexVal(s[Len(s)])

IsOctet(t) ==
    /\ Len(t) \in 1..3
    /\ \A i \in 1..Len(t) : IsDigit(t[i])
    /\ (Len(t) > 1 => t[1] # 48)
    /\ DecVal(t) <= 255

ParseIP(s) ==
    LET parts == Split(s, 46)
    IN  IF Len(parts) = 4 /\ \A i \in 1..4 : IsOctet(parts[i])
        THEN [kind |-> "v4", ip |-> [i \in 1..4 |-> DecVal(parts[i])]]
        ELSE IF /\ Len(s) \in 2..6
                /\ s[1] = 58 /\ s[2] = 58
                /\ \A i \in 3..Len(s) : IsHex(s[i])
        THEN [kind |-> "v6",
              ip |-> [i \in 1..16 |-> IF i = 15 THEN HexNum(Drop(s, 2)) \div 256
                                      ELSE IF i = 16 THEN HexNum(Drop(s, 2)) % 256
                                      ELSE 0]]
        ELSE [kind |-> "nil", ip |-> <<>>]

\* The family test of parseV1IPAddress on the parsed address.
checkV1IPAddress(protocol, addr) ==
    [addr |-> addr.ip,
     err  |-> IF (protocol = TCPv4 /\ addr.kind # "v4") \/ (protocol = TCPv6 /\ addr.kind = "v4")
              THEN "ErrInvalidAddress" ELSE "nil"]

parseV1IPAddress(protocol, addrStr) == checkV1IPAddress(protocol, ParseIP(addrStr))

\* A parser's failure: no header, the error, and the reader as it was left.
NoHeader(r, e) == [r |-> r, hdr |-> NilHeader, err |-> e]

\* parseVersion1, the end: the first error among the four fields, or the header.
parseV1Header(r, tp, src, dst, sp, dp) ==
    IF src.err # "nil" THEN NoHeader(r, src.err)
    ELSE IF dst.err # "nil" THEN NoHeader(r, dst.err)
    ELSE IF sp.err # "nil" THEN NoHeader(r, sp.err)
    ELSE IF dp.err # "nil" THEN NoHeader(r, dp.err)
    ELSE [r |-> r, err |-> "nil",
          hdr |-> [initVersion1 EXCEPT !.transportProtocol = tp,
                                       !.sourceAddress = src.addr,
                                       !.destinationAddress = dst.addr,
                                       !.sourcePort = sp.port,
                                       !.destinationPort = dp.port]]

\* parseVersion1, the transport protocol token.
parseV1Protocol(token) ==
    IF token = <<84, 67, 80, 52>> THEN TCPv4
    ELSE IF token = <<84, 67, 80, 54>> THEN TCPv6
    ELSE UNSPEC

\* parseVersion1, the fields of a line of at least six tokens.
parseV1Fields(r, tp, tokens) ==
    parseV1Header(r, tp,
                  parseV1IPAddress(tp, tokens[3]), parseV1IPAddress(tp, tokens[4]),
                  parseV1PortNumber(tokens[5]), parseV1PortNumber(tokens[6]))

\* parseVersion1, the token count.
parseV1Tokens(r, tokens) ==
    IF Len(tokens) < 6 THEN NoHeader(r, "ErrCantReadProtocolVersionAndCommand")
    ELSE parseV1Fields(r, parseV1Protocol(tokens[2]), tokens)

\* parseVersion1, the line rs that ReadString returned.
parseV1Line(rs) ==
    IF ~HasSuffix(rs.line, CRLF) THEN NoHeader(rs.r, "ErrCantReadProtocolVersionAndCommand")
    ELSE parseV1Tokens(rs.r, Split(SubSeq(rs.line, 1, Len(rs.line) - 2), SEPARATOR))

parseVersion1(r) == parseV1Line(bufReadString(r, 10))

\* -------------------------------------------------------------- v2 codec
\* A length test that only asks for a known family.
validateLengthAnyLength(tp, length) == IsIPv4(tp) \/ IsIPv6(tp) \/ IsUnix(tp)

validateLength(tp, length) ==
    IF IsIPv4(tp) THEN length >= v2AddrLenInet
    ELSE IF IsIPv6(tp) THEN length >= v2AddrLenInet6
    ELSE IF IsUnix(tp) THEN length >= v2AddrLenUnix
    ELSE FALSE

RECURSIVE readBytes(_, _)
readBytesNext(b, n) == IF ~b.ok THEN [r |-> b.r, ok |-> FALSE] ELSE readBytes(b.r, n - 1)

\* n successive ReadByte calls.
readBytes(r, n) == IF n = 0 THEN [r |-> r, ok |-> TRUE] ELSE readBytesNext(bufReadByte(r), n)

\* The big-endian uint16 in the two bytes f read.
uint16Of(f) == [r |-> f.r, ok |-> f.ok, val |-> IF f.ok THEN f.data[1] * 256 + f.data[2] ELSE 0]

\* binary.Read of a big-endian uint16 through io.LimitReader(reader, 2).
readUint16(r) == uint16Of(readFull(r, 2, 2))

\* TLV types whose value parseV2TlvField reads with parseV2TlvGenericBytes.
TlvValueRead ==
    {1, 2, 48} \cup (33..37) \cup (224..239) \cup (240..247)

v2TlvTypeSsl == 32

\* One reader.Read into a slice of maxLength bytes; only its error is looked at.
genericBytesRead(got) == [r |-> got.r, ok |-> ~got.eof]

parseV2TlvGenericBytes(r, maxLength) == genericBytesRead(bufRead(r, maxLength))

RECURSIVE parseVersion2Tlv(_, _)

\* parseV2TlvSsl after the client byte c: four bytes discarded, then the sub-TLVs.
parseV2TlvSslClient(c, maxLength) ==
    IF ~c.ok THEN [r |-> c.r, ok |-> FALSE]
    ELSE [r |-> parseVersion2Tlv(bufDiscard(c.r, 4), maxLength - 5).r, ok |-> TRUE]

parseV2TlvSsl(r, maxLength) ==
    IF maxLength < 5 THEN [r |-> r, ok |-> FALSE]
    ELSE parseV2TlvSslClient(bufReadByte(r), maxLength)

\* parseV2TlvField, the outcome v of reading the value with the new remainder.
parseV2TlvValueRead(v, rest) == [r |-> v.r, ok |-> v.ok, length |-> rest]

\* parseV2TlvField, the switch on the type; rest is the remainder after the field.
parseV2TlvValue(tlvType, r, tlvLength, rest) ==
    IF tlvType \in TlvValueRead
    THEN parseV2TlvValueRead(parseV2TlvGenericBytes(r, tlvLength), rest)
    ELSE IF tlvType = v2TlvTypeSsl
    THEN parseV2TlvValueRead(parseV2TlvSsl(r, tlvLength), rest)
    ELSE [r |-> r, ok |-> TRUE, length |-> rest]

\* parseV2TlvField, the length l that was read: the comparison and the
\* subtraction are uint16 arithmetic.
parseV2TlvLength(tlvType, l, length) ==
    IF ~l.ok THEN [r |-> l.r, ok |-> FALSE, length |-> length]
    ELSE IF (l.val + v2TlvHeaderLen) % U16 > length
    THEN [r |-> l.r, ok |-> FALSE, length |-> length]
    ELSE parseV2TlvValue(tlvType, l.r, l.val,
                         (length + U16 - ((v2TlvHeaderLen + l.val) % U16)) % U16)

\* parseV2TlvField, the type byte t that was read.
parseV2TlvType(t, length) ==
    IF ~t.ok THEN [r |-> t.r, ok |-> FALSE, length |-> length]
    ELSE parseV2TlvLength(t.b, readUint16(t.r), length)

parseV2TlvField(r, length) == parseV2TlvType(bufReadByte(r), length)

\* The loop of parseVersion2Tlv after one field f.
parseVersion2TlvNext(f) ==
    IF ~f.ok THEN [r |-> f.r, ok |-> FALSE] ELSE parseVersion2Tlv(f.r, f.length)

parseVersion2Tlv(r, length) ==
    IF length = 0 THEN [r |-> r, ok |-> TRUE]
    ELSE parseVersion2TlvNext(parseV2TlvField(r, length))

\* The v2header parseVersion2 has filled so far.
v2Header(command, tp) ==
    [NilHeader EXCEPT !.version = 2, !.command = command, !.transportProtocol = tp]

\* Length of the address block of an IPv4 / IPv6 header.
v2AddrLen(tp) == IF IsIPv4(tp) THEN v2AddrLenInet ELSE v2AddrLenInet6

\* parseVersion2, the address block addr that was read (alen bytes: two
\* addresses, two ports), then the TLVs, whose error is dropped.
parseV2Addr(command, tp, length, alen, addr) ==
    IF ~addr.ok THEN NoHeader(addr.r, "ErrInvalidAddress")
    ELSE [r |-> parseVersion2Tlv(addr.r, (length + U16 - alen) % U16).r, err |-> "nil",
          hdr |-> [v2Header(command, tp) EXCEPT
              !.sourceAddress = SubSeq(addr.data, 1, (alen - 4) \div 2),
              !.destinationAddress = SubSeq(addr.data, (alen - 4) \div 2 + 1, alen - 4),
              !.sourcePort = addr.data[alen - 3] * 256 + addr.data[alen - 2],
              !.destinationPort = addr.data[alen - 1] * 256 + addr.data[alen]]]

\* A parser that goes on to the addresses whatever the Peek of length bytes gave.
parseV2PeekUnchecked(command, tp, length, pk) ==
    IF IsIPv4(tp) \/ IsIPv6(tp)
    THEN parseV2Addr(command, tp, length, v2AddrLen(tp), readFull(pk.r, v2AddrLen(tp), length))
    ELSE [r |-> pk.r, err |-> "nil", hdr |-> v2Header(command, tp)]

\* parseVersion2, the Peek pk of length bytes; Unix addresses are not read.
parseV2Peek(command, tp, length, pk) ==
    IF ~pk.ok THEN NoHeader(pk.r, "ErrInvalidLength")
    ELSE IF IsIPv4(tp) \/ IsIPv6(tp)
    THEN parseV2Addr(command, tp, length, v2AddrLen(tp), readFull(pk.r, v2AddrLen(tp), length))
    ELSE [r |-> pk.r, err |-> "nil", hdr |-> v2Header(command, tp)]

\* parseVersion2, the length len that was read.
parseV2Length(command, tp, len) ==
    IF ~len.ok THEN NoHeader(len.r, "ErrCantReadLength")
    ELSE IF ~validateLength(tp, len.val) THEN NoHeader(len.r, "ErrInvalidLength")
    ELSE parseV2Peek(command, tp, len.val, bufPeek(len.r, len.val))

\* parseVersion2, the 14th byte b14 that was read.
parseV2Family(command, b14) ==
    IF ~b14.ok THEN NoHeader(b14.r, "ErrCantReadAddressFamilyAndProtocol")
    ELSE IF b14.b \notin supportedTransportProtocol
    THEN NoHeader(b14.r, "ErrUnsupportedAddressFamilyAndProtocol")
    ELSE parseV2Length(command, b14.b, readUint16(b14.r))

\* A parser that reads the family and the addresses of a LOCAL header too.
parseV2CommandAnyFamily(b13) ==
    IF ~b13.ok THEN NoHeader(b13.r, "ErrCantReadProtocolVersionAndCommand")
    ELSE IF b13.b \notin supportedCommand
    THEN NoHeader(b13.r, "ErrUnsupportedProtocolVersionAndCommand")
    ELSE parseV2Family(b13.b, bufReadByte(b13.r))

\* parseVersion2, the 13th byte b13 that was read: a LOCAL header ends here.
parseV2Command(b13) ==
    IF ~b13.ok THEN NoHeader(b13.r, "ErrCantReadProtocolVersionAndCommand")
    ELSE IF b13.b \notin supportedCommand
    THEN NoHeader(b13.r, "ErrUnsupportedProtocolVersionAndCommand")
    ELSE IF IsLocal(b13.b) THEN [r |-> b13.r, hdr |-> v2Header(b13.b, UNSPEC), err |-> "nil"]
    ELSE parseV2Family(b13.b, bufReadByte(b13.r))

\* parseVersion2, the twelve signature bytes skipped.
parseV2Signature(sig) ==
    IF ~sig.ok THEN NoHeader(sig.r, "ErrCantReadProtocolVersionAndCommand")
    ELSE parseV2Command(bufReadByte(sig.r))

parseVersion2(r) == parseV2Signature(readBytes(r, 12))

\* ---------------------------------------------------------------- Format
RECURSIVE Itoa(_)
\* strconv.Itoa of a port value.
Itoa(n) == IF n < 10 THEN <<48 + n>> ELSE Itoa(n \div 10) \o <<48 + (n % 10)>>

HexDigit(d) == IF d < 10 THEN 48 + d ELSE 87 + d

RECURSIVE HexStr(_)
HexStr(n) == IF n < 16 THEN <<HexDigit(n)>> ELSE HexStr(n \div 16) \o <<HexDigit(n % 16)>>

\* net.IP.String on the addresses the model holds: "<nil>" for a nil IP,
\* dotted decimal for four bytes, "::h" for sixteen bytes that are zero but
\* for the last two.
IPString(ip) ==
    IF Len(ip) = 4
    THEN Itoa(ip[1]) \o <<46>> \o Itoa(ip[2]) \o <<46>> \o Itoa(ip[3]) \o <<46>> \o Itoa(ip[4])
    ELSE IF Len(ip) = 16
    THEN <<58, 58>> \o (IF ip[15] = 0 /\ ip[16] = 0 THEN <<>> ELSE HexStr(ip[15] * 256 + ip[16]))
    ELSE <<60, 110, 105, 108, 62>>

\* net.IP.To4 / To16 on those addresses.
To4(ip) == IF Len(ip) = 4 THEN ip ELSE <<>>

To16(ip) ==
    IF Len(ip) = 16 THEN ip
    ELSE IF Len(ip) = 4 THEN [i \in 1..16 |-> IF i <= 10 THEN 0 ELSE IF i <= 12 THEN 255 ELSE ip[i - 12]]
    ELSE <<>>

\* binary.BigEndian.PutUint16.
PutUint16(v) == <<(v % U16) \div 256, v % 256>>

\* v1header.Format.
formatV1(h) ==
    SIGV1 \o <<SEPARATOR>>
    \o (IF h.transportProtocol = TCPv4 THEN <<84, 67, 80, 52>>
        ELSE IF h.transportProtocol = TCPv6 THEN <<84, 67, 80, 54>>
        ELSE <<85, 78, 75, 78, 79, 87, 78>>)
    \o <<SEPARATOR>> \o IPString(h.sourceAddress)
    \o <<SEPARATOR>> \o IPString(h.destinationAddress)
    \o <<SEPARATOR>> \o Itoa(h.sourcePort)
    \o <<SEPARATOR>> \o Itoa(h.destinationPort)
    \o CRLF

\* v2header.Format, the length and the two addresses of a PROXY header.
formatV2Addrs(h) ==
    IF IsIPv4(h.transportProtocol)
    THEN PutUint16(v2AddrLenInet) \o To4(h.sourceAddress) \o To4(h.destinationAddress)
    ELSE IF IsIPv6(h.transportProtocol)
    THEN PutUint16(v2AddrLenInet6) \o To16(h.sourceAddress) \o To16(h.destinationAddress)
    ELSE IF IsUnix(h.transportProtocol)
    THEN PutUint16(v2AddrLenUnix) \o IPString(h.sourceAddress) \o IPString(h.destinationAddress)
    ELSE <<>>

\* v2header.Format: a LOCAL header ends after the command byte; no TLV is written.
formatV2(h) ==
    SIGV2 \o <<h.command>>
    \o (IF IsLocal(h.command) THEN <<>>
        ELSE <<h.transportProtocol>> \o formatV2Addrs(h)
             \o PutUint16(h.sourcePort) \o PutUint16(h.destinationPort))

\* header.Format, by the version of the header.
Format(h) == IF h.version = 1 THEN formatV1(h) ELSE formatV2(h)

\* -------------------------------------------------------- Read entry point
\* Read after Peek(12).
ReadPeek12(p12) ==
    IF p12.ok /\ p12.data = SIGV2 THEN parseVersion2(p12.r)
    ELSE NoHeader(p12.r, "ErrNoProxyProtocol")

\* Read after Peek(5).
ReadPeek5(p5) ==
    IF p5.ok /\ p5.data = SIGV1 THEN parseVersion1(p5.r)
    ELSE ReadPeek12(bufPeek(p5.r, 12))

\* Read after Peek(1).
ReadPeek1(p1) ==
    IF p1.ok /\ (p1.data[1] = SIGV1[1] \/ p1.data[1] = SIGV2[1])
    THEN ReadPeek5(bufPeek(p1.r, 5))
    ELSE NoHeader(p1.r, "ErrNoProxyProtocol")

\* A ReadByte presented as the result of a Peek(1).
ByteAsPeek(b) == [r |-> b.r, ok |-> b.ok, data |-> IF b.ok THEN <<b.b>> ELSE <<>>]

\* Read with its first look at the stream made by ReadByte instead of Peek.
ReadFirstByteConsumed(r) == ReadPeek1(ByteAsPeek(bufReadByte(r)))

\* Peeks one byte, then the v1 signature, then the v2 signature; consumes
\* nothing unless a signature matched.
Read(r) == ReadPeek1(bufPeek(r, 1))

\* ----------------------------------------------------- connection wrapper
\* What the header step does with the header Read returned, by policy.
policyOutcome(pol, h) ==
    IF pol = PolicyREJECT THEN [header |-> NilHeader, err |-> "ErrSuperfluousProxyHeader"]
    ELSE IF pol = PolicyIGNORE THEN [header |-> NilHeader, err |-> "nil"]
    ELSE [header |-> h, err |-> "nil"]

\* Conn.readHeader on the result res of Read: any error is returned as it is
\* and no header is stored; otherwise the header is stored as the policy allows.
storeHeader(res, pol) ==
    IF res.err # "nil"
    THEN [r |-> res.r, header |-> NilHeader, err |-> res.err, parsed |-> NilHeader]
    ELSE [r |-> res.r, header |-> policyOutcome(pol, res.hdr).header,
          err |-> policyOutcome(pol, res.hdr).err, parsed |-> res.hdr]

readHeader(r, pol) == storeHeader(Read(r), pol)

\* A barrier that tests "done" without holding the lock while the function
\* runs: a caller arriving during the run starts a run of its own.
OnceMayRunUnlocked(o) == o # "done"

\* sync.Once: Do runs its function only for the caller that finds it fresh;
\* callers arriving while it runs wait, callers arriving later skip it.
OnceMayRun(o) == o = "fresh"

OnceMaySkip(o) == o = "done"

\* A Conn that keeps the error of the header step for every later caller.
readErrAfterOnceStored(ran, e) == e

\* The error Conn.Read sees after once.Do: the closure's own result when this
\* call ran the header step, nil otherwise.
readErrAfterOnce(ran, e) == IF ran THEN e ELSE "nil"

\* Conn.LocalAddr / Conn.RemoteAddr after once.Do.
connLocalAddr == TCPAddr(<<127, 0, 0, 1>>, 80)

connRemoteAddr == TCPAddr(<<127, 0, 0, 1>>, 99)

LocalAddr(h) == IF h = NilHeader THEN connLocalAddr ELSE HeaderLocalAddr(h)

RemoteAddr(h) == IF h = NilHeader THEN connRemoteAddr ELSE HeaderRemoteAddr(h)

\* ------------------------------------------------------------------ inputs
HdrV1 ==
    <<80, 82, 79, 88, 89, 32, 84, 67, 80, 52, 32, 49, 46, 49, 46, 49, 46, 49, 32,
      50, 46, 50, 46, 50, 46, 50, 32, 49, 32, 50, 13, 10>>

HdrV2Tcp4 == SIGV2 \o <<33, 17, 0, 12, 10, 1, 1, 1, 20, 2, 2, 2, 3, 232, 7, 208>>

HdrV2Local == SIGV2 \o <<32, 0, 0, 0>>

BadV1 == <<80, 82, 79, 88, 89, 32, 84, 67, 80, 52, 32, 120, 13, 10>>

Payloads == {<<112, 105, 110>>}

\* class "valid": a well-formed header H followed by payload P; "none": no
\* signature at the head of the stream; "bad": a signature and a malformed rest.
Inputs ==
    [class : {"valid"}, H : {HdrV1, HdrV2Tcp4, HdrV2Local}, P : Payloads]
    \cup [class : {"none"}, H : {<<>>},
          P : {<<112, 105, 110, 103>>, <<80, 82, 79, 88>>, <<80, 82, 79, 88, 90>>,
               <<13, 10, 104, 105>>}]
    \cup [class : {"bad"}, H : {BadV1}, P : {<<104, 105>>}]

\* The stream cut into a first segment of f bytes and segments of at most g.
RECURSIVE Chunks(_, _)
Chunks(s, g) == IF s = <<>> THEN <<>> ELSE <<Take(s, g)>> \o Chunks(Drop(s, g), g)

Segments(s, f, g) == <<Take(s, f)>> \o Chunks(Drop(s, f), g)

Callers == {1, 2}

Ops == {"Read", "LocalAddr", "RemoteAddr"}

ReadLens == {MaxReadLen, BufSize}

\* ------------------------------------------------------------------- state
VARIABLES
    input,      \* what the peer sent (fixed at Init)
    policy,     \* Conn.proxyHeaderPolicy
    reader,     \* Conn.bufReader over Conn.conn
    header,     \* Conn.header
    once,       \* Conn.once: "fresh", "running", "done"
    pc,         \* per caller: "idle", "once", "hdr", "after"
    op,         \* per caller: the method it is in
    rlen,       \* per caller: len(b) of its Read
    lerr,       \* per caller: the local err of Conn.Read
    calls,      \* calls started so far
    parses,     \* how many times readHeader has run
    outcome,    \* what the one header step returned: [err, parsed, by]
    overlapped, \* whether a call has started while another was in progress
    log,        \* completed calls, in order of return
    now,        \* the clock
    readDeadline,       \* the read deadline set on Conn.conn, 0 for none
    proxyHeaderTimeout, \* Conn.proxyHeaderTimeout, 0 for none
    peer,       \* what the peer has still to send: [segs, closes]
    started,    \* when the first call on the connection was made
    lst,        \* a proxyproto.Listener and the connections reaching it
    server,     \* an http2.Server and its Serve call
    lib         \* a call of a function of the package: [fn, arg, pc, res]

\* The clock, the deadlines and the peer: only the timed actions change them.
tvars == <<now, readDeadline, proxyHeaderTimeout, peer, started>>

\* The listener and the server: the actions of a connection leave them alone.
svars == <<lst, server, lib>>

vars == <<input, policy, reader, header, once, pc, op, rlen, lerr, calls, parses, outcome, overlapped, log, tvars, svars>>

\* A server on which Serve has not been called.
NoServe ==
    [h2Err |-> "nil", closed |-> FALSE, registered |-> FALSE, lnOpen |-> TRUE,
     pc |-> "none", delay |-> 0, streak |-> 0, accepts |-> 0, startedClosed |-> FALSE,
     sleeps |-> <<>>, spawned |-> <<>>, rets |-> <<>>]

\* No function of the package is called on its own.
NoLib == [fn |-> "none", arg |-> <<>>, pc |-> "none", res |-> <<>>]

\* No listener and no server: the connection was made with NewConn.
NoServer ==
    /\ lst = [incoming |-> <<>>, next |-> 0, open |-> FALSE, returned |-> <<>>, closed |-> {}]
    /\ server = NoServe
    /\ lib = NoLib

\* A peer that has sent everything and closed: the whole stream is in the
\* transport from the start and time plays no part.
Untimed ==
    /\ now = 0
    /\ readDeadline = 0
    /\ proxyHeaderTimeout = 0
    /\ peer = [segs |-> <<>>, closes |-> TRUE]
    /\ started = 0

NoOutcome == [err |-> "nil", parsed |-> NilHeader, by |-> "none"]

Init ==
    /\ input \in Inputs
    /\ policy \in Policies
    /\ \E f \in 1..Len(input.H \o input.P), g \in 1..MaxSeg :
           reader = NewReader(Segments(input.H \o input.P, f, g))
    /\ header = NilHeader
    /\ once = "fresh"
    /\ pc = [t \in Callers |-> "idle"]
    /\ op = [t \in Callers |-> "Read"]
    /\ rlen = [t \in Callers |-> 0]
    /\ lerr = [t \in Callers |-> "nil"]
    /\ calls = 0
    /\ parses = 0
    /\ outcome = NoOutcome
    /\ overlapped = FALSE
    /\ log = <<>>
    /\ Untimed
    /\ NoServer

\* A caller enters Read(b), LocalAddr() or RemoteAddr().
Call(t) ==
    /\ pc[t] = "idle"
    /\ calls < MaxCalls
    /\ \E o \in Ops :
           /\ op' = [op EXCEPT ![t] = o]
           /\ \E n \in (IF o = "Read" THEN ReadLens ELSE {0}) :
                  rlen' = [rlen EXCEPT ![t] = n]
    /\ lerr' = [lerr EXCEPT ![t] = "nil"]
    /\ pc' = [pc EXCEPT ![t] = "once"]
    /\ calls' = calls + 1
    /\ overlapped' = (overlapped \/ \E u \in Callers : pc[u] # "idle")
    /\ UNCHANGED <<input, policy, reader, header, once, parses, outcome, log>>
    /\ UNCHANGED tvars
    /\ UNCHANGED svars

\* once.Do finds the Once fresh: this caller will run readHeader.
OnceBegin(t) ==
    /\ pc[t] = "once"
    /\ OnceMayRun(once)
    /\ once' = "running"
    /\ pc' = [pc EXCEPT ![t] = "hdr"]
    /\ UNCHANGED <<input, policy, reader, header, op, rlen, lerr, calls, parses, outcome, overlapped, log>>
    /\ UNCHANGED tvars
    /\ UNCHANGED svars

\* once.Do finds the Once done: the function is not run.
OnceSkip(t) ==
    /\ pc[t] = "once"
    /\ OnceMaySkip(once)
    /\ lerr' = [lerr EXCEPT ![t] = readErrAfterOnce(FALSE, outcome.err)]
    /\ pc' = [pc EXCEPT ![t] = "after"]
    /\ UNCHANGED <<input, policy, reader, header, once, op, rlen, calls, parses, outcome, overlapped, log>>
    /\ UNCHANGED tvars
    /\ UNCHANGED svars

\* The function passed to once.Do: readHeader, then the Once is done.
RunHeader(t) ==
    /\ pc[t] = "hdr"
    /\ \E res \in {readHeader(reader, policy)} :
           /\ reader' = res.r
           /\ header' = res.header
           /\ lerr' = [lerr EXCEPT ![t] =
                          IF op[t] = "Read" THEN readErrAfterOnce(TRUE, res.err) ELSE "nil"]
           /\ outcome' = [err |-> res.err, parsed |-> res.parsed, by |-> op[t]]
    /\ parses' = parses + 1
    /\ once' = "done"
    /\ pc' = [pc EXCEPT ![t] = "after"]
    /\ UNCHANGED <<input, policy, op, rlen, calls, overlapped, log>>
    /\ UNCHANGED tvars
    /\ UNCHANGED svars

\* Conn.Read after once.Do: the local err if set, else bufReader.Read(b).
ReadReturn(t) ==
    /\ pc[t] = "after"
    /\ op[t] = "Read"
    /\ \E got \in {bufRead(reader, rlen[t])} :
           IF lerr[t] # "nil"
           THEN /\ log' = Append(log, [op |-> "Read", data |-> <<>>, err |-> lerr[t],
                                       addr |-> TCPAddr(<<>>, 0)])
                /\ UNCHANGED reader
           ELSE /\ log' = Append(log, [op |-> "Read", data |-> got.data,
                                       err |-> IF got.eof THEN "EOF" ELSE "nil",
                                       addr |-> TCPAddr(<<>>, 0)])
                /\ reader' = got.r
    /\ pc' = [pc EXCEPT ![t] = "idle"]
    /\ UNCHANGED <<input, policy, header, once, op, rlen, lerr, calls, parses, outcome, overlapped>>
    /\ UNCHANGED tvars
    /\ UNCHANGED svars

\* Conn.LocalAddr / Conn.RemoteAddr after once.Do.
AddrReturn(t) ==
    /\ pc[t] = "after"
    /\ op[t] # "Read"
    /\ log' = Append(log, [op |-> op[t], data |-> <<>>, err |-> "nil",
                           addr |-> IF op[t] = "LocalAddr" THEN LocalAddr(header)
                                    ELSE RemoteAddr(header)])
    /\ pc' = [pc EXCEPT ![t] = "idle"]
    /\ UNCHANGED <<input, policy, reader, header, once, op, rlen, lerr, calls, parses, outcome, overlapped>>
    /\ UNCHANGED tvars
    /\ UNCHANGED svars

Next ==
    \E t \in Callers :
        \/ Call(t)
        \/ OnceBegin(t)
        \/ OnceSkip(t)
        \/ RunHeader(t)
        \/ ReadReturn(t)
        \/ AddrReturn(t)

Spec == Init /\ [][Next]_vars

\* ---------------------------------------------------------- Listener.Accept
\* The policy value that asks for no wrapping at all.
PolicySKIP == "SKIP"

\* The policies a listener's policy function may answer for a connection.
AcceptPolicies == Policies \cup {PolicySKIP}

\* Listener.Accept: whatever the policy, the accepted connection is handed to
\* NewConn and the wrapper is returned; nothing is read from it yet.
Accept(segs, pol) == [wrapped |-> TRUE, reader |-> NewReader(segs)]

\* The state after Listener.Accept has returned a connection.
InitAccept ==
    /\ input \in Inputs
    /\ policy \in AcceptPolicies
    /\ \E f \in 1..Len(input.H \o input.P), g \in 1..MaxSeg :
           reader = Accept(Segments(input.H \o input.P, f, g), policy).reader
    /\ header = NilHeader
    /\ once = "fresh"
    /\ pc = [t \in Callers |-> "idle"]
    /\ op = [t \in Callers |-> "Read"]
    /\ rlen = [t \in Callers |-> 0]
    /\ lerr = [t \in Callers |-> "nil"]
    /\ calls = 0
    /\ parses = 0
    /\ outcome = NoOutcome
    /\ overlapped = FALSE
    /\ log = <<>>
    /\ Untimed
    /\ NoServer

SpecAccept == InitAccept /\ [][Next]_vars

\* ------------------------------------------------------------ the listener
\* What the listener's policy function would answer for a connection: no
\* error, the error that asks to skip the connection, or another error.
PolicyAnswers == {"nil", "ErrInvalidUpstream", "ErrOther"}

RECURSIVE SeqsUpTo(_, _)
\* The non-empty sequences over S of length at most n.
SeqsUpTo(S, n) ==
    IF n = 0 THEN {}
    ELSE {<<x>> : x \in S} \cup {Append(q, x) : q \in SeqsUpTo(S, n - 1), x \in S}

\* A connection as the variables of a connection hold it before any call.
ConnUnused ==
    /\ input = [class |-> "none", H |-> <<>>, P |-> <<>>]
    /\ policy = PolicyUSE
    /\ reader = NewReader(<<>>)
    /\ header = NilHeader
    /\ once = "fresh"
    /\ pc = [t \in Callers |-> "idle"]
    /\ op = [t \in Callers |-> "Read"]
    /\ rlen = [t \in Callers |-> 0]
    /\ lerr = [t \in Callers |-> "nil"]
    /\ calls = 0
    /\ parses = 0
    /\ outcome = NoOutcome
    /\ overlapped = FALSE
    /\ log = <<>>
    /\ Untimed

\* An open listener; incoming holds, for each connection that will reach it,
\* the answer of the policy function for that connection.
InitListen ==
    /\ ConnUnused
    /\ server = NoServe
    /\ lib = NoLib
    /\ \E q \in SeqsUpTo(PolicyAnswers, MaxConns) :
           lst = [incoming |-> q, next |-> 0, open |-> TRUE, returned |-> <<>>, closed |-> {}]

\* Listener.Accept on what the underlying Accept gave: its error as it is,
\* else the connection wrapped by NewConn.
acceptReturn(under) ==
    IF under.err # "nil" THEN [for |-> under.conn, conn |-> 0, err |-> under.err]
    ELSE [for |-> under.conn, conn |-> under.conn, err |-> "nil"]

\* The underlying Accept: the next connection, or an error once closed.
underAccept(l) ==
    IF l.open THEN [conn |-> l.next + 1, err |-> "nil"] ELSE [conn |-> 0, err |-> "ErrClosed"]

\* A call of Listener.Accept returns.
ListenerAccept ==
    /\ Len(lst.returned) <= MaxConns
    /\ ~lst.open \/ lst.next < Len(lst.incoming)
    /\ lst' = [lst EXCEPT !.returned = Append(@, acceptReturn(underAccept(lst))),
                          !.next = IF lst.open THEN @ + 1 ELSE @]
    /\ UNCHANGED <<input, policy, reader, header, once, pc, op, rlen, lerr, calls, parses,
                   outcome, overlapped, log, server, lib>>
    /\ UNCHANGED tvars

\* Listener.Close: closes the underlying listener.
ListenerClose ==
    /\ lst.open
    /\ lst' = [lst EXCEPT !.open = FALSE]
    /\ UNCHANGED <<input, policy, reader, header, once, pc, op, rlen, lerr, calls, parses,
                   outcome, overlapped, log, server, lib>>
    /\ UNCHANGED tvars

NextListen == ListenerAccept \/ ListenerClose

SpecListen == InitListen /\ [][NextListen]_vars

\* -------------------------------------------------------- the http2 server
\* listenerRetryBaseDelay and the largest delay, in milliseconds.
listenerRetryBaseDelay == 5

maxDelay == 1000

\* Serve, the delay to sleep after a timeout error of Accept.
retryDelay(delay) ==
    Min(IF delay = 0 THEN listenerRetryBaseDelay ELSE delay * 2, maxDelay)

\* A Serve that wraps every Accept error, whether the server is closed or not.
acceptErrorReturnWrapped(closed) == "ErrAcceptFailed"

\* Serve, what it returns on an Accept error that is no timeout.
acceptErrorReturn(closed) == IF closed THEN "ErrServerClosed" ELSE "ErrAcceptFailed"

\* What ln.Accept() can give: a connection, a timeout error or another
\* error while the listener is open, an error once it is closed.
AcceptResults(open) == IF open THEN {"conn", "timeout", "error"} ELSE {"error"}

\* A server after NewServer, whose HTTP/2 setup succeeded or failed.
InitServe ==
    /\ ConnUnused
    /\ lst = [incoming |-> <<>>, next |-> 0, open |-> FALSE, returned |-> <<>>, closed |-> {}]
    /\ lib = NoLib
    /\ \E e \in {"nil", "h2Err"} : server = [NoServe EXCEPT !.h2Err = e]

\* The return of Serve, with what the call did.
serveReturn(sv, ret) ==
    [sv EXCEPT !.pc = "returned", !.registered = FALSE,
               !.rets = Append(@, [ret |-> ret, closed |-> sv.closed, accepts |-> sv.accepts,
                                   startedClosed |-> sv.startedClosed,
                                   registered |-> sv.registered])]

\* Serve up to its loop: the setup error, else the closed flag under the
\* mutex, the listener registered only when the server is not closed.
ServeStart ==
    /\ server.pc \in {"none", "returned"}
    /\ Len(server.rets) < MaxServes
    /\ server' =
           IF server.h2Err # "nil"
           THEN serveReturn([server EXCEPT !.accepts = 0, !.startedClosed = server.closed],
                            server.h2Err)
           ELSE IF server.closed
           THEN serveReturn([server EXCEPT !.accepts = 0, !.startedClosed = TRUE],
                            "ErrServerClosed")
           ELSE [server EXCEPT !.pc = "accept", !.registered = TRUE, !.lnOpen = TRUE,
                               !.delay = 0, !.streak = 0, !.accepts = 0,
                               !.startedClosed = FALSE, !.sleeps = <<>>,
                               !.spawned = <<>>]
    /\ UNCHANGED <<input, policy, reader, header, once, pc, op, rlen, lerr, calls, parses,
                   outcome, overlapped, log, lst, lib>>
    /\ UNCHANGED tvars

\* One turn of the loop of Serve on the result res of ln.Accept(): a timeout
\* error sets the delay and sleeps; another error returns; then, the loop
\* not having been left, the delay is set to zero and serveConn is started
\* on conn, which is nil after a timeout error.
serveTurn(sv, res) ==
    IF res = "error" THEN serveReturn(sv, acceptErrorReturn(sv.closed))
    ELSE IF res = "timeout"
    THEN [sv EXCEPT !.delay = 0,
                    !.streak = @ + 1,
                    !.accepts = @ + 1,
                    !.sleeps = Append(@, [k |-> sv.streak + 1, d |-> retryDelay(sv.delay)]),
                    !.spawned = Append(@, "nil")]
    ELSE [sv EXCEPT !.delay = 0, !.streak = 0, !.accepts = @ + 1,
                    !.spawned = Append(@, "conn")]

ServeAccept ==
    /\ server.pc = "accept"
    /\ \E res \in AcceptResults(server.lnOpen) :
           /\ res # "error" => server.accepts < MaxTurns
           /\ server' = serveTurn(server, res)
    /\ UNCHANGED <<input, policy, reader, header, once, pc, op, rlen, lerr, calls, parses,
                   outcome, overlapped, log, lst, lib>>
    /\ UNCHANGED tvars

\* A close that marks the server closed and leaves its listeners open.
closeListenersFlagOnly(sv) == [sv EXCEPT !.closed = TRUE]

\* closeListeners, under the mutex: the server is marked closed and every
\* registered listener is closed.
closeListeners(sv) ==
    [sv EXCEPT !.closed = TRUE, !.lnOpen = IF sv.registered THEN FALSE ELSE @]

\* Server.Close reaches closeListeners.
ServerClose ==
    /\ ~server.closed
    /\ server' = closeListeners(server)
    /\ UNCHANGED <<input, policy, reader, header, once, pc, op, rlen, lerr, calls, parses,
                   outcome, overlapped, log, lst, lib>>
    /\ UNCHANGED tvars

NextServe == ServeStart \/ ServeAccept \/ ServerClose

SpecServe == InitServe /\ [][NextServe]_vars

\* ----------------------------------------------------- headers from addresses
\* A net.Addr: net is "tcp", "udp", "unix" or "other"; ip is <<>> for a nil IP.
NetAddr(net, ip, port) == [net |-> net, ip |-> ip, port |-> port]

\* NewHeaderFromConn after the type switch on RemoteAddr chose TCP or UDP
\* (tp4 / tp6 by remote.ip.To4()): the type assertion on LocalAddr panics
\* when the local address is of another type.
headerFromIPAddrs(remote, local, command, tp4, tp6) ==
    IF local.net # remote.net THEN [panic |-> TRUE, hdr |-> NilHeader]
    ELSE [panic |-> FALSE,
          hdr |-> [NilHeader EXCEPT
              !.version = 1,
              !.command = command,
              !.transportProtocol = IF To4(remote.ip) # <<>> THEN tp4 ELSE tp6,
              !.sourceAddress = remote.ip,
              !.sourcePort = remote.port % U16,
              !.destinationAddress = local.ip,
              !.destinationPort = local.port % U16]]

\* NewHeaderFromConn: a v1header with the command given and the transport
\* protocol chosen by the type of the remote address alone.
NewHeaderFromConn(remote, local, command) ==
    IF remote.net = "unix"
    THEN [panic |-> FALSE,
          hdr |-> [NilHeader EXCEPT !.version = 1, !.command = command,
                                    !.transportProtocol = UnixStream]]
    ELSE IF remote.net = "tcp" THEN headerFromIPAddrs(remote, local, command, TCPv4, TCPv6)
    ELSE IF remote.net = "udp" THEN headerFromIPAddrs(remote, local, command, UDPv4, UDPv6)
    ELSE [panic |-> FALSE,
          hdr |-> [NilHeader EXCEPT !.version = 1, !.command = command]]

\* ------------------------------------------------------------------- TLVs
PP2_TYPE_NOOP == 4
PP2_TYPE_SSL == 32
PP2_SUBTYPE_SSL_VERSION == 33
PP2_SUBTYPE_SSL_CN == 34
PP2_SUBTYPE_SSL_CIPHER == 35
PP2_BITFIELD_CLIENT_SSL == 1
tlvSSLMinLen == 5
MaxASCII == 127

\* A TLV struct; Value stays nil for no-op padding.
TLV(type, length, value) == [Type |-> type, Length |-> length, Value |-> value]

\* What a split gives: the error, the TLVs, whether it panicked, and how many
\* leading bytes of the backing array it has read (read > len: outside the slab).
SplitResult(err, tlvs, read) == [err |-> err, tlvs |-> tlvs, panic |-> FALSE, read |-> read]

SplitPanic(read) == [err |-> "nil", tlvs |-> <<>>, panic |-> TRUE, read |-> read]

Max(a, b) == IF a > b THEN a ELSE b

\* raw[i] of Go (0-based) in a backing array whose bytes past len(raw) are
\* the zeroes of the allocation.
ByteAt(raw, i) == IF i < Len(raw) THEN raw[i + 1] ELSE 0

\* The record at raw[i:], its length read and found to fit.
tlvAt(raw, i, length) ==
    TLV(raw[i + 1], length,
        IF raw[i + 1] # PP2_TYPE_NOOP THEN SubSeq(raw, i + 4, i + 3 + length) ELSE <<>>)

\* splitTLVs: the loop from index i, tlvs collected so far.
RECURSIVE splitTLVsFrom(_, _, _, _)
splitTLVsFrom(raw, i, tlvs, read) ==
    IF i >= Len(raw) THEN SplitResult("nil", tlvs, read)
    ELSE IF Len(raw) - i <= 3 THEN SplitResult("ErrTruncatedTLV", <<>>, Max(read, i + 1))
    ELSE IF i + 3 + (ByteAt(raw, i + 1) * 256 + ByteAt(raw, i + 2)) > Len(raw)
    THEN SplitResult("ErrTruncatedTLV", <<>>, Max(read, i + 3))
    ELSE splitTLVsFrom(raw, i + 3 + (raw[i + 2] * 256 + raw[i + 3]),
                       Append(tlvs, tlvAt(raw, i, raw[i + 2] * 256 + raw[i + 3])),
                       i + 3 + (raw[i + 2] * 256 + raw[i + 3]))

splitTLVs(raw) == splitTLVsFrom(raw, 0, <<>>, 0)

\* readTLVs after ioutil.ReadAll gave rest with capacity cap: the length is
\* sliced out of rest[i+1 : i+3] with no check against len(rest), which
\* panics past the capacity and reads the spare capacity otherwise.
RECURSIVE readTLVsFrom(_, _, _, _, _)
readTLVsFrom(rest, cap, i, tlvs, read) ==
    IF i >= Len(rest) THEN SplitResult("nil", tlvs, read)
    ELSE IF i + 3 > cap THEN SplitPanic(Max(read, i + 1))
    ELSE IF i + 3 + (ByteAt(rest, i + 1) * 256 + ByteAt(rest, i + 2)) > Len(rest)
    THEN SplitResult("ErrTruncatedTLV", <<>>, Max(read, i + 3))
    ELSE readTLVsFrom(rest, cap, i + 3 + (rest[i + 2] * 256 + rest[i + 3]),
                      Append(tlvs, tlvAt(rest, i, rest[i + 2] * 256 + rest[i + 3])),
                      i + 3 + (rest[i + 2] * 256 + rest[i + 3]))

readTLVs(rest, cap) == readTLVsFrom(rest, cap, 0, <<>>, 0)

\* isASCII: no byte above unicode.MaxASCII.
isASCII(b) == \A k \in 1..Len(b) : b[k] <= MaxASCII

\* utf8.Valid from index k (1-based): the size of the sequence by its first
\* byte, the range of the second byte by the first, continuation bytes after.
utf8Size(c) ==
    IF c < 128 THEN 1
    ELSE IF c \in 194..223 THEN 2
    ELSE IF c \in 224..239 THEN 3
    ELSE IF c \in 240..244 THEN 4
    ELSE 0

utf8SecondLo(c) == IF c = 224 THEN 160 ELSE IF c = 240 THEN 144 ELSE 128

utf8SecondHi(c) == IF c = 237 THEN 159 ELSE IF c = 244 THEN 143 ELSE 191

utf8SeqOk(b, k, size) ==
    /\ size > 0
    /\ k + size - 1 <= Len(b)
    /\ size >= 2 => b[k + 1] \in utf8SecondLo(b[k])..utf8SecondHi(b[k])
    /\ \A j \in (k + 2)..(k + size - 1) : b[j] \in 128..191

RECURSIVE utf8ValidFrom(_, _)
utf8ValidFrom(b, k) ==
    IF k > Len(b) THEN TRUE
    ELSE IF ~utf8SeqOk(b, k, utf8Size(b[k])) THEN FALSE
    ELSE utf8ValidFrom(b, k + utf8Size(b[k]))

utf8Valid(b) == utf8ValidFrom(b, 1)

\* What decoding an SSL TLV gives.
SSLResult(err, client, tlvs) == [err |-> err, Client |-> client, TLV |-> tlvs]

ClientSSL(client) == client % 2 = PP2_BITFIELD_CLIENT_SSL

\* The loop of SSL over the sub-TLVs from index k: the error it returns, or
\* "nil" with versionFound as found |-> TRUE / FALSE.
RECURSIVE sslSubTLVs(_, _, _)
sslSubTLVs(tlvs, k, versionFound) ==
    IF k > Len(tlvs) THEN [err |-> "nil", versionFound |-> versionFound]
    ELSE IF tlvs[k].Type = PP2_SUBTYPE_SSL_VERSION
    THEN IF Len(tlvs[k].Value) = 0 \/ ~isASCII(tlvs[k].Value)
         THEN [err |-> "ErrMalformedTLV", versionFound |-> versionFound]
         ELSE sslSubTLVs(tlvs, k + 1, TRUE)
    ELSE IF tlvs[k].Type = PP2_SUBTYPE_SSL_CN
    THEN IF Len(tlvs[k].Value) = 0 \/ ~utf8Valid(tlvs[k].Value)
         THEN [err |-> "ErrMalformedTLV", versionFound |-> versionFound]
         ELSE sslSubTLVs(tlvs, k + 1, versionFound)
    ELSE sslSubTLVs(tlvs, k + 1, versionFound)

IsSSL(t) == t.Type = PP2_TYPE_SSL /\ Len(t.Value) >= tlvSSLMinLen

\* tlvparse.SSL after the sub-TLVs were split.
sslOfSplit(t, sp) ==
    IF sp.err # "nil" THEN SSLResult(sp.err, 0, <<>>)
    ELSE IF sslSubTLVs(sp.tlvs, 1, ~ClientSSL(t.Value[1])).err # "nil"
    THEN SSLResult("ErrMalformedTLV", 0, <<>>)
    ELSE IF ~sslSubTLVs(sp.tlvs, 1, ~ClientSSL(t.Value[1])).versionFound
    THEN SSLResult("ErrMalformedTLV", 0, <<>>)
    ELSE SSLResult("nil", t.Value[1], sp.tlvs)

\* tlvparse.SSL.
SSL(t) ==
    IF ~IsSSL(t) THEN SSLResult("ErrIncompatibleTLV", 0, <<>>)
    ELSE IF Len(t.Value) < tlvSSLMinLen THEN SSLResult("ErrMalformedTLV", 0, <<>>)
    ELSE sslOfSplit(t, splitTLVs(Drop(t.Value, 5)))

\* TLV.SSL of package proxyproto: as tlvparse.SSL with cnFound, also required.
cnFound(tlvs) == \E k \in 1..Len(tlvs) : tlvs[k].Type = PP2_SUBTYPE_SSL_CN

tlvSSLOfSplit(t, sp) ==
    IF sslOfSplit(t, sp).err # "nil" THEN sslOfSplit(t, sp)
    ELSE IF ~cnFound(sp.tlvs) THEN SSLResult("ErrMalformedTLV", 0, <<>>)
    ELSE sslOfSplit(t, sp)

TLVSSL(t) ==
    IF ~(t.Type = PP2_TYPE_SSL /\ t.Length >= tlvSSLMinLen) THEN SSLResult("ErrIncompatibleTLV", 0, <<>>)
    ELSE tlvSSLOfSplit(t, splitTLVs(Drop(t.Value, 5)))

\* v2header.Format with its error: always nil, whatever TLVs the header holds.
formatV2Result(h) == [bytes |-> formatV2(h), err |-> "nil"]

\* ------------------------------------------------ calls of package functions
\* A record on the wire: type, length (2 bytes, big endian), value.
EncodeTLV(t) == <<t.Type>> \o PutUint16(Len(t.Value)) \o t.Value

EncodeTLVs(tlvs) == Flatten([k \in 1..Len(tlvs) |-> EncodeTLV(tlvs[k])])

\* Sub-TLVs of an SSL TLV: a version, a CN or a cipher, whose value is empty,
\* "A", the lone continuation byte 0x80, or the two bytes of U+00E9.
SubValues == {<<>>, <<65>>, <<128>>, <<195, 169>>}

SubTLVs ==
    {TLV(tp, Len(v), v) : tp \in {PP2_SUBTYPE_SSL_VERSION, PP2_SUBTYPE_SSL_CN, PP2_SUBTYPE_SSL_CIPHER},
                          v \in SubValues}

MaxSubTLVs == 2

SubTLVLists == {<<>>} \cup SeqsUpTo(SubTLVs, MaxSubTLVs)

\* The SSL TLV carrying the client byte, a verify of zero and the sub-TLVs.
SSLTLV(client, subs) ==
    TLV(PP2_TYPE_SSL, 5 + Len(EncodeTLVs(subs)), <<client, 0, 0, 0, 0>> \o EncodeTLVs(subs))

\* Records of a slab: no-op padding or a version, with up to two bytes.
SlabTLVs ==
    {TLV(tp, Len(v), v) : tp \in {PP2_TYPE_NOOP, PP2_SUBTYPE_SSL_VERSION},
                          v \in {<<>>, <<65>>, <<65, 66>>}}

MaxSlabTLVs == 2

\* Slabs: every prefix of the encoding of up to MaxSlabTLVs records, so that
\* headers are cut short and values fall short of their declared length.
Slabs ==
    UNION {{Take(EncodeTLVs(q), n) : n \in 0..Len(EncodeTLVs(q))} :
           q \in SeqsUpTo(SlabTLVs, MaxSlabTLVs)}

\* The spare capacity ReadAll leaves after the bytes it read.
MaxSpare == 2

\* Headers given to Format with tlvLen bytes of TLVs to carry.
FormatHeaders ==
    {[NilHeader EXCEPT !.version = 2, !.command = CmdPROXY, !.transportProtocol = TCPv4,
                       !.sourceAddress = <<10, 1, 1, 1>>, !.destinationAddress = <<10, 1, 1, 2>>,
                       !.sourcePort = 1000, !.destinationPort = 2000],
     [NilHeader EXCEPT !.version = 2, !.command = CmdPROXY, !.transportProtocol = TCPv6,
                       !.sourceAddress = [i \in 1..16 |-> IF i = 16 THEN 1 ELSE 0],
                       !.destinationAddress = [i \in 1..16 |-> IF i = 16 THEN 2 ELSE 0],
                       !.sourcePort = 1000, !.destinationPort = 2000],
     [NilHeader EXCEPT !.version = 2, !.command = CmdLOCAL]}

TLVLens == {0, 3, U16 - 1 - v2AddrLenInet6, U16 - 1 - v2AddrLenInet, U16 - v2AddrLenInet, U16 - 1, U16}

\* The addresses of the two ends of a connection: 10.1.1.1, ::1 or a nil IP
\* over TCP and UDP, and a Unix socket.
BuildAddrs ==
    {NetAddr(n, ip, 1000) : n \in {"tcp", "udp"},
                            ip \in {<<10, 1, 1, 1>>, [i \in 1..16 |-> IF i = 16 THEN 1 ELSE 0], <<>>}}
    \cup {NetAddr("unix", <<>>, 0)}

\* A call about to be made, with its arguments.
LibCall(fn, arg) == [fn |-> fn, arg |-> arg, pc |-> "idle", res |-> <<>>]

InitLibCalls ==
    \/ \E src \in BuildAddrs, dst \in BuildAddrs, c \in supportedCommand :
           lib = LibCall("NewHeaderFromConn", [remote |-> src, local |-> dst, command |-> c])
    \/ \E fn \in {"SSL", "TLV.SSL"}, client \in {0, 1}, subs \in SubTLVLists :
           lib = LibCall(fn, [client |-> client, subs |-> subs, t |-> SSLTLV(client, subs)])
    \/ \E raw \in Slabs :
           lib = LibCall("splitTLVs", [raw |-> raw, cap |-> Len(raw)])
    \/ \E raw \in Slabs, spare \in 1..MaxSpare :
           lib = LibCall("readTLVs", [raw |-> raw, cap |-> Len(raw) + spare])
    \/ \E h \in FormatHeaders, n \in TLVLens :
           lib = LibCall("Format", [hdr |-> h, tlvLen |-> n])

InitLib ==
    /\ ConnUnused
    /\ lst = [incoming |-> <<>>, next |-> 0, open |-> FALSE, returned |-> <<>>, closed |-> {}]
    /\ server = NoServe
    /\ InitLibCalls

\* The call returns res, or panics.
libReturn(res) ==
    /\ lib.pc = "idle"
    /\ lib' = [lib EXCEPT !.pc = "done", !.res = res]
    /\ UNCHANGED <<input, policy, reader, header, once, pc, op, rlen, lerr, calls, parses,
                   outcome, overlapped, log, lst, server>>
    /\ UNCHANGED tvars

\* NewHeaderFromConn is called on the connection.
Build ==
    /\ lib.fn = "NewHeaderFromConn"
    /\ \E res \in {NewHeaderFromConn(lib.arg.remote, lib.arg.local, lib.arg.command)} :
           libReturn(res)

\* The SSL TLV is decoded, by tlvparse.SSL or by TLV.SSL.
DecodeSSL ==
    /\ lib.fn \in {"SSL", "TLV.SSL"}
    /\ \E res \in {IF lib.fn = "SSL" THEN SSL(lib.arg.t) ELSE TLVSSL(lib.arg.t)} :
           libReturn(res)

\* The slab is split, by splitTLVs or by readTLVs.
SplitSlab ==
    /\ lib.fn \in {"splitTLVs", "readTLVs"}
    /\ \E res \in {IF lib.fn = "splitTLVs" THEN splitTLVs(lib.arg.raw)
                   ELSE readTLVs(lib.arg.raw, lib.arg.cap)} :
           libReturn(res)

\* The header is written with Format.
FormatTLVs ==
    /\ lib.fn = "Format"
    /\ \E res \in {formatV2Result(lib.arg.hdr)} :
           libReturn(res)

NextLib == Build \/ DecodeSSL \/ SplitSlab \/ FormatTLVs

SpecLib == InitLib /\ [][NextLib]_vars

\* ------------------------------------------------- deadlines and slow peers
\* A v1 header begun and not finished: "PROXY TCP4 1".
PartialV1 == <<80, 82, 79, 88, 89, 32, 84, 67, 80, 52, 32, 49>>

\* What a peer may send over time: nothing, bytes that are no header, the
\* beginning of a header, or a header and a payload.
TimedStreams ==
    {[class |-> "none", H |-> <<>>, P |-> <<>>],
     [class |-> "none", H |-> <<>>, P |-> <<112, 105, 110>>],
     [class |-> "none", H |-> <<>>, P |-> <<80, 82, 79, 88>>],
     [class |-> "partial", H |-> PartialV1, P |-> <<>>],
     [class |-> "valid", H |-> HdrV1, P |-> <<112, 105, 110>>]}

\* The stream as the peer will send it: in one piece, or cut in two at cut.
PeerSegments(s, cut) ==
    IF s = <<>> THEN <<>>
    ELSE IF cut = 0 \/ cut >= Len(s) THEN <<s>>
    ELSE <<Take(s, cut), Drop(s, cut)>>

\* Where the model cuts a stream: inside its first bytes or inside its last.
Cuts(s) == {0, 1, 5, Len(s) - 1}

\* A header read that runs under its own timeout whenever one is configured.
headerReadDeadlineOwn(userDeadline, start, timeout) ==
    IF timeout # 0 THEN start + timeout ELSE userDeadline

\* The deadline in force on the connection during the header read: the one
\* the user set with SetReadDeadline; readHeader sets none of its own.
headerReadDeadline(userDeadline, start, timeout) == userDeadline

\* The peer has sent everything and closed its side.
PeerClosed == peer.segs = <<>> /\ peer.closes

\* A read of the connection that finds nothing returns at once when the peer
\* has closed or the deadline has passed, and blocks otherwise.
DeadlinePassed ==
    LET d == headerReadDeadline(readDeadline, started, proxyHeaderTimeout)
    IN  d # 0 /\ now >= d

\* Whether an operation that left the reader as r has returned: it has unless
\* it found the connection dry with the peer still open and no deadline passed.
Returns(r) == ~r.dry \/ PeerClosed \/ DeadlinePassed

\* The error of a read of the connection that found nothing.
connReadError == IF PeerClosed THEN "EOF" ELSE "ErrTimeout"

InitTimed ==
    /\ input \in TimedStreams
    /\ policy \in Policies
    /\ reader = NewReader(<<>>)
    /\ header = NilHeader
    /\ once = "fresh"
    /\ pc = [t \in Callers |-> "idle"]
    /\ op = [t \in Callers |-> "Read"]
    /\ rlen = [t \in Callers |-> 0]
    /\ lerr = [t \in Callers |-> "nil"]
    /\ calls = 0
    /\ parses = 0
    /\ outcome = NoOutcome
    /\ overlapped = FALSE
    /\ log = <<>>
    /\ now = 0
    /\ readDeadline = 0
    /\ proxyHeaderTimeout \in 1..MaxTimeout
    /\ \E cut \in Cuts(input.H \o input.P), c \in BOOLEAN :
           peer = [segs |-> PeerSegments(input.H \o input.P, cut), closes |-> c]
    /\ started = 0
    /\ NoServer

\* Conn.SetReadDeadline before the first call: passed on to the connection.
SetReadDeadline(d) ==
    /\ calls = 0
    /\ readDeadline = 0
    /\ d > now
    /\ readDeadline' = d
    /\ UNCHANGED <<input, policy, reader, header, once, pc, op, rlen, lerr, calls, parses,
                   outcome, overlapped, log, now, proxyHeaderTimeout, peer, started>>
    /\ UNCHANGED svars

\* The next piece the peer sends reaches the transport.
Arrive ==
    /\ peer.segs # <<>>
    /\ reader' = [reader EXCEPT !.segs = Append(@, Head(peer.segs))]
    /\ peer' = [peer EXCEPT !.segs = Tail(@)]
    /\ UNCHANGED <<input, policy, header, once, pc, op, rlen, lerr, calls, parses,
                   outcome, overlapped, log, now, readDeadline, proxyHeaderTimeout, started>>
    /\ UNCHANGED svars

\* The caller enters Read(b); the first call fixes when the header read starts.
TimedCall(t) ==
    /\ t = 1
    /\ pc[t] = "idle"
    /\ calls < MaxCalls
    /\ op' = [op EXCEPT ![t] = "Read"]
    /\ rlen' = [rlen EXCEPT ![t] = BufSize]
    /\ lerr' = [lerr EXCEPT ![t] = "nil"]
    /\ pc' = [pc EXCEPT ![t] = "once"]
    /\ calls' = calls + 1
    /\ started' = IF calls = 0 THEN now ELSE started
    /\ UNCHANGED <<input, policy, reader, header, once, parses, outcome, overlapped, log,
                   now, readDeadline, proxyHeaderTimeout, peer>>
    /\ UNCHANGED svars

\* readHeader inside once.Do, on a connection that may have nothing to give:
\* it returns when the parser has what it needs, the peer has closed or the
\* deadline has passed.
TimedRunHeader(t) ==
    /\ pc[t] = "hdr"
    /\ \E res \in {readHeader(reader, policy)} :
           /\ Returns(res.r)
           /\ reader' = [res.r EXCEPT !.dry = FALSE]
           /\ header' = res.header
           /\ lerr' = [lerr EXCEPT ![t] = readErrAfterOnce(TRUE, res.err)]
           /\ outcome' = [err |-> res.err, parsed |-> res.parsed, by |-> op[t]]
    /\ parses' = parses + 1
    /\ once' = "done"
    /\ pc' = [pc EXCEPT ![t] = "after"]
    /\ UNCHANGED <<input, policy, op, rlen, calls, overlapped, log>>
    /\ UNCHANGED tvars
    /\ UNCHANGED svars

\* Conn.Read after once.Do: the local err if set, else bufReader.Read(b),
\* which may have to wait for the connection.
TimedReadReturn(t) ==
    /\ pc[t] = "after"
    /\ \E got \in {bufRead(reader, rlen[t])} :
           IF lerr[t] # "nil"
           THEN /\ log' = Append(log, [op |-> "Read", data |-> <<>>, err |-> lerr[t],
                                       addr |-> TCPAddr(<<>>, 0), at |-> now])
                /\ UNCHANGED reader
           ELSE /\ Returns(got.r)
                /\ log' = Append(log, [op |-> "Read", data |-> got.data,
                                       err |-> IF got.eof THEN connReadError ELSE "nil",
                                       addr |-> TCPAddr(<<>>, 0), at |-> now])
                /\ reader' = [got.r EXCEPT !.dry = FALSE]
    /\ pc' = [pc EXCEPT ![t] = "idle"]
    /\ UNCHANGED <<input, policy, header, once, op, rlen, lerr, calls, parses, outcome, overlapped>>
    /\ UNCHANGED tvars
    /\ UNCHANGED svars

\* A caller that is inside a call and not waiting for the connection.
Running(t) ==
    \/ pc[t] = "once"
    \/ pc[t] = "hdr" /\ Returns(readHeader(reader, policy).r)
    \/ pc[t] = "after" /\ (lerr[t] # "nil" \/ Returns(bufRead(reader, rlen[t]).r))

\* Time passes only while every caller is idle or waiting for the connection.
Tick ==
    /\ now < MaxTime
    /\ \A t \in Callers : ~Running(t)
    /\ now' = now + 1
    /\ UNCHANGED <<input, policy, reader, header, once, pc, op, rlen, lerr, calls, parses,
                   outcome, overlapped, log, readDeadline, proxyHeaderTimeout, peer, started>>
    /\ UNCHANGED svars

NextTimed ==
    \/ \E d \in 1..MaxTime : SetReadDeadline(d)
    \/ Arrive
    \/ Tick
    \/ \E t \in Callers :
           \/ TimedCall(t)
           \/ OnceBegin(t)
           \/ OnceSkip(t)
           \/ TimedRunHeader(t)
           \/ TimedReadReturn(t)

SpecTimed == InitTimed /\ [][NextTimed]_vars

\* ------------------------------------------------------------- ReadTimeout
\* What the underlying reader does once the bytes of the stream are out: it
\* returns io.EOF, returns an error of its own, or has nothing yet.
ReaderEnds == {"eof", "broken", "open"}

\* ReadTimeout(reader, timeout) is called at time 0: the goroutine it starts
\* is in Read(reader) (go), the channel read is empty, the caller is at the
\* select (pc). late: the goroutine read the reader after ReadTimeout had
\* returned; raced: it did so while the caller was reading the reader.
InitReadTimeout ==
    /\ input \in TimedStreams
    /\ policy = PolicyUSE
    /\ reader = NewReader(<<>>)
    /\ header = NilHeader
    /\ once = "fresh"
    /\ pc = [t \in Callers |-> "idle"]
    /\ op = [t \in Callers |-> "Read"]
    /\ rlen = [t \in Callers |-> 0]
    /\ lerr = [t \in Callers |-> "nil"]
    /\ calls = 0
    /\ parses = 0
    /\ outcome = NoOutcome
    /\ overlapped = FALSE
    /\ log = <<>>
    /\ now = 0
    /\ readDeadline = 0
    /\ proxyHeaderTimeout \in 1..MaxTimeout
    /\ started = 0
    /\ lst = [incoming |-> <<>>, next |-> 0, open |-> FALSE, returned |-> <<>>, closed |-> {}]
    /\ server = NoServe
    /\ \E cut \in Cuts(input.H \o input.P), e \in ReaderEnds :
           /\ peer = [segs |-> PeerSegments(input.H \o input.P, cut), closes |-> e # "open"]
           /\ lib = [fn |-> "ReadTimeout", arg |-> [end |-> e], pc |-> "select",
                     res |-> [h |-> NilHeader, e |-> "nil", by |-> "none"],
                     go |-> "parsing", read |-> <<>>, late |-> FALSE, raced |-> FALSE]

\* The goroutine: h.h, h.e = Read(reader); read <- h. The channel has room
\* for one result, so the send never waits for a receiver.
ReadTimeoutParse ==
    /\ lib.fn = "ReadTimeout"
    /\ lib.go = "parsing"
    /\ \E res \in {Read(reader)} :
           /\ Returns(res.r)
           /\ reader' = [res.r EXCEPT !.dry = FALSE]
           /\ lib' = [lib EXCEPT !.go = "sent",
                                 !.read = <<[h |-> res.hdr, e |-> res.err]>>,
                                 !.late = lib.pc # "select",
                                 !.raced = lib.pc = "reading"]
    /\ UNCHANGED <<input, policy, header, once, pc, op, rlen, lerr, calls, parses,
                   outcome, overlapped, log, lst, server>>
    /\ UNCHANGED tvars

\* select, case result := <-read: the result of the parse is returned.
ReadTimeoutResult ==
    /\ lib.fn = "ReadTimeout"
    /\ lib.pc = "select"
    /\ lib.read # <<>>
    /\ lib' = [lib EXCEPT !.pc = "returned", !.read = <<>>,
                          !.res = [h |-> lib.read[1].h, e |-> lib.read[1].e, by |-> "read"]]
    /\ UNCHANGED <<input, policy, reader, header, once, pc, op, rlen, lerr, calls, parses,
                   outcome, overlapped, log, lst, server>>
    /\ UNCHANGED tvars

\* select, case <-timer.C: no header; the goroutine is left as it is.
ReadTimeoutTimer ==
    /\ lib.fn = "ReadTimeout"
    /\ lib.pc = "select"
    /\ now >= started + proxyHeaderTimeout
    /\ lib' = [lib EXCEPT !.pc = "returned",
                          !.res = [h |-> NilHeader, e |-> "ErrNoProxyProtocol", by |-> "timer"]]
    /\ UNCHANGED <<input, policy, reader, header, once, pc, op, rlen, lerr, calls, parses,
                   outcome, overlapped, log, lst, server>>
    /\ UNCHANGED tvars

\* The caller of ReadTimeout goes on to read the reader itself.
CallerReadBegin ==
    /\ lib.fn = "ReadTimeout"
    /\ lib.pc = "returned"
    /\ lib' = [lib EXCEPT !.pc = "reading"]
    /\ UNCHANGED <<input, policy, reader, header, once, pc, op, rlen, lerr, calls, parses,
                   outcome, overlapped, log, lst, server>>
    /\ UNCHANGED tvars

\* The caller's read returns; when the goroutine has been in the reader
\* meanwhile the two were unsynchronised and the reader is left either way.
CallerReadEnd ==
    /\ lib.fn = "ReadTimeout"
    /\ lib.pc = "reading"
    /\ \E got \in {bufRead(reader, BufSize)} :
           /\ Returns(got.r)
           /\ reader' \in (IF lib.raced THEN {reader, [got.r EXCEPT !.dry = FALSE]}
                           ELSE {[got.r EXCEPT !.dry = FALSE]})
    /\ lib' = [lib EXCEPT !.pc = "done"]
    /\ UNCHANGED <<input, policy, header, once, pc, op, rlen, lerr, calls, parses,
                   outcome, overlapped, log, lst, server>>
    /\ UNCHANGED tvars

NextReadTimeout ==
    \/ ReadTimeoutParse
    \/ ReadTimeoutResult
    \/ ReadTimeoutTimer
    \/ CallerReadBegin
    \/ CallerReadEnd
    \/ Arrive
    \/ Tick

SpecReadTimeout == InitReadTimeout /\ [][NextReadTimeout]_vars

\* ------------------------------------------------------------ pipeListener
\* make(chan net.Conn, 64)
pipeChanCap == 64

\* Two callers of ServeConn, one of Close, one of Accept.
PipeServers == {"serve1", "serve2"}

PipeProcs == PipeServers \cup {"close", "accept"}

\* newPipeListener: ch counts the connections queued in ln.ch, mu is "free"
\* or the process that holds ln.mu; pc is per process "idle" (not in a call),
\* "lock" (at ln.mu.Lock), "locked" (holding it) or "recv" (at <-ln.ch).
InitPipe ==
    /\ ConnUnused
    /\ lst = [incoming |-> <<>>, next |-> 0, open |-> FALSE, returned |-> <<>>, closed |-> {}]
    /\ server = NoServe
    /\ lib = [fn |-> "pipeListener", ch |-> 0, chClosed |-> FALSE, closed |-> FALSE,
              mu |-> "free", pc |-> [p \in PipeProcs |-> "idle"],
              ret |-> [p \in PipeProcs |-> "none"]]

PipeUnchanged ==
    /\ UNCHANGED <<input, policy, reader, header, once, pc, op, rlen, lerr, calls, parses,
                   outcome, overlapped, log, lst, server>>
    /\ UNCHANGED tvars

\* ServeConn, Close or Accept is called.
PipeCall(p) ==
    /\ lib.pc[p] = "idle"
    /\ lib' = [lib EXCEPT !.pc[p] = IF p = "accept" THEN "recv" ELSE "lock"]
    /\ PipeUnchanged

\* ln.mu.Lock() returns.
PipeLock(p) ==
    /\ lib.pc[p] = "lock"
    /\ lib.mu = "free"
    /\ lib' = [lib EXCEPT !.pc[p] = "locked", !.mu = p]
    /\ PipeUnchanged

\* ServeConn holding the mutex: ErrClosed on a closed listener, else
\* ln.ch <- conn, which waits while the queue is full; the deferred Unlock
\* runs when the function returns.
PipeServeConn(p) ==
    /\ p \in PipeServers
    /\ lib.pc[p] = "locked"
    /\ lib.closed \/ lib.ch < pipeChanCap
    /\ lib' = [lib EXCEPT !.pc[p] = "idle", !.mu = "free",
                          !.ch = IF lib.closed THEN @ ELSE @ + 1,
                          !.ret[p] = IF lib.closed THEN "ErrClosed" ELSE "nil"]
    /\ PipeUnchanged

\* Close holding the mutex: ErrClosed the second time, else the flag is set
\* and the channel closed.
PipeClose ==
    /\ lib.pc["close"] = "locked"
    /\ lib' = [lib EXCEPT !.pc["close"] = "idle", !.mu = "free",
                          !.closed = TRUE, !.chClosed = TRUE,
                          !.ret["close"] = IF lib.closed THEN "ErrClosed" ELSE "nil"]
    /\ PipeUnchanged

\* Accept: <-ln.ch gives a queued connection, or fails once the channel is
\* closed and empty, and waits otherwise.
PipeAccept ==
    /\ lib.pc["accept"] = "recv"
    /\ lib.ch > 0 \/ lib.chClosed
    /\ lib' = [lib EXCEPT !.pc["accept"] = "idle",
                          !.ch = IF lib.ch > 0 THEN @ - 1 ELSE @,
                          !.ret["accept"] = IF lib.ch > 0 THEN "conn" ELSE "ErrClosed"]
    /\ PipeUnchanged

NextPipe ==
    \/ \E p \in PipeProcs : PipeCall(p)
    \/ \E p \in PipeProcs : PipeLock(p)
    \/ \E p \in PipeProcs : PipeServeConn(p)
    \/ PipeClose
    \/ PipeAccept

\* A call that can go on does go on, and a mutex that keeps becoming free is
\* obtained; whether anyone calls Accept, ServeConn or Close is up to the
\* callers.
FairPipe ==
    /\ \A p \in PipeProcs : SF_vars(PipeLock(p))
    /\ \A p \in PipeProcs : WF_vars(PipeServeConn(p))
    /\ WF_vars(PipeClose)
    /\ WF_vars(PipeAccept)

SpecPipe == InitPipe /\ [][NextPipe]_vars /\ FairPipe

\* ------------------------------------------------------- the codec alone
\* n space bytes.
Spaces(n) == [i \in 1..n |-> 32]

\* "PROXY TCP4 1.1.1.1 2.2.2.2 1 2" without its line end.
V1Line == SubSeq(HdrV1, 1, Len(HdrV1) - 2)

\* v1 lines padded with n spaces before the CRLF (32 + n bytes), and one that
\* never ends; the longest line the protocol allows has 107 bytes.
V1PadLens == {0, 75, 76, 80}

LongV1Inputs ==
    {[class |-> "v1long", H |-> V1Line \o Spaces(n) \o CRLF, P |-> <<112, 105, 110>>] :
        n \in V1PadLens}
    \cup {[class |-> "v1long", H |-> V1Line \o Spaces(80), P |-> <<>>]}

\* "PROXY TCP6 ::1 ::2 1 2\r\n" and "PROXY UNKNOWN\r\n"-like lines with addresses.
HdrV1Tcp6 ==
    <<80, 82, 79, 88, 89, 32, 84, 67, 80, 54, 32, 58, 58, 49, 32, 58, 58, 50, 32,
      49, 32, 50, 13, 10>>

HdrV1Unknown ==
    <<80, 82, 79, 88, 89, 32, 85, 78, 75, 78, 79, 87, 78, 32, 120, 32, 121, 32,
      49, 32, 50, 13, 10>>

\* A v2 PROXY header of family tp declaring length bytes, followed by body.
HdrV2(tp, length, body) == SIGV2 \o <<CmdPROXY, tp>> \o PutUint16(length) \o body

\* n bytes of an address block: 1, 2, 3, ...
Block(n) == [i \in 1..n |-> i % 256]

HdrV2Tcp6 == HdrV2(TCPv6, v2AddrLenInet6, Block(v2AddrLenInet6))

HdrV2Unix == HdrV2(UnixStream, v2AddrLenUnix, Block(v2AddrLenUnix))

\* Well-formed headers of both versions, every family.
RoundTripInputs ==
    [class : {"valid"},
     H : {HdrV1, HdrV1Tcp6, HdrV1Unknown, HdrV2Tcp4, HdrV2Tcp6, HdrV2Unix, HdrV2Local},
     P : {<<>>, <<112, 105, 110>>}]

\* n zero bytes.
Zeros(n) == [i \in 1..n |-> 0]

\* TCP4 headers whose declared length covers the address block and n bytes
\* of zero padding after it.
V2PadLens == {1, 2, 3}

PaddedV2Inputs ==
    {[class |-> "valid",
      H |-> HdrV2(TCPv4, v2AddrLenInet + n, Block(v2AddrLenInet) \o Zeros(n)),
      P |-> <<112, 105, 110>>] : n \in V2PadLens}

\* Length of the address block of a family.
addrBlockLen(tp) ==
    IF IsIPv4(tp) THEN v2AddrLenInet ELSE IF IsIPv6(tp) THEN v2AddrLenInet6 ELSE v2AddrLenUnix

\* PROXY headers declaring less than the address block of their family: no
\* length at all, or one byte too few; the declared bytes and a payload follow.
ShortV2Inputs ==
    UNION {{[class |-> "short", H |-> HdrV2(tp, len, Block(len)), P |-> <<112, 105, 110>>] :
               len \in {0, addrBlockLen(tp) - 1}} :
           tp \in {TCPv4, UDPv4, TCPv6, UnixStream}}

\* PROXY headers declaring more than the reader's buffer can hold: one byte
\* more with all the declared bytes following, and the largest length with
\* only an address block following.
BigV2Inputs ==
    {[class |-> "big", H |-> HdrV2(tp, BufSize + 1, Block(BufSize + 1)), P |-> <<112, 105, 110>>] :
        tp \in {TCPv4, TCPv6}}
    \cup {[class |-> "big", H |-> HdrV2(TCPv4, U16 - 1, Block(v2AddrLenInet)), P |-> <<>>]}

\* Source-port tokens: "0", "65535", "65536", "70000", "080", "-1", "x", "".
PortTokens ==
    {<<48>>, <<54, 53, 53, 51, 53>>, <<54, 53, 53, 51, 54>>, <<55, 48, 48, 48, 48>>,
     <<48, 56, 48>>, <<45, 49>>, <<120>>, <<>>}

\* "PROXY TCP4 1.1.1.1 2.2.2.2 " and "PROXY TCP6 ::1 ::2 ", up to the ports.
V1Prefixes == {SubSeq(HdrV1, 1, 27), SubSeq(HdrV1Tcp6, 1, 19)}

\* v1 lines with each token as the source port and 2 as the destination port.
PortV1Inputs ==
    {[class |-> "port", H |-> pre \o tok \o <<SEPARATOR, 50>> \o CRLF, P |-> <<112, 105, 110>>] :
        pre \in V1Prefixes, tok \in PortTokens}

\* "PROXY UNKNOWN", the head of a v1 line for an unknown protocol.
V1Unknown == SubSeq(HdrV1Unknown, 1, 13)

\* What may follow UNKNOWN before the CRLF: nothing, " x y 1 2",
\* " 1.1.1.1 2.2.2.2 70000 2", " ::1".
UnknownTails ==
    {<<>>, SubSeq(HdrV1Unknown, 14, 21),
     <<32, 49, 46, 49, 46, 49, 46, 49, 32, 50, 46, 50, 46, 50, 46, 50, 32,
       55, 48, 48, 48, 48, 32, 50>>,
     <<32, 58, 58, 49>>}

UnknownV1Inputs ==
    {[class |-> "unknown", H |-> V1Unknown \o tail \o CRLF, P |-> <<112, 105, 110>>] :
        tail \in UnknownTails}

\* Address tokens: "1.1.1.1", "::1", "x", "256.1.1.1".
AddrTokens ==
    {<<49, 46, 49, 46, 49, 46, 49>>, <<58, 58, 49>>, <<120>>,
     <<50, 53, 54, 46, 49, 46, 49, 46, 49>>}

\* Destination tokens of each family: "2.2.2.2", "::2".
DstTokens == {<<50, 46, 50, 46, 50, 46, 50>>, <<58, 58, 50>>}

\* v1 TCP4 and TCP6 lines with each pair of address tokens and ports 1 and 2.
AddrV1Inputs ==
    {[class |-> "addr",
      H |-> SubSeq(HdrV1, 1, 9) \o <<fam, SEPARATOR>> \o a \o <<SEPARATOR>> \o b
            \o <<SEPARATOR, 49, SEPARATOR, 50>> \o CRLF,
      P |-> <<112, 105, 110>>] :
        fam \in {52, 54}, a \in AddrTokens \cup DstTokens, b \in DstTokens}

\* LOCAL headers: with no address block, and with a TCP4 address block.
LocalV2Inputs ==
    [class : {"valid"},
     H : {HdrV2Local,
          SIGV2 \o <<CmdLOCAL, TCPv4>> \o PutUint16(v2AddrLenInet) \o Block(v2AddrLenInet)},
     P : {<<>>, <<112, 105, 110>>}]

\* TCP4 headers whose TLV region is one ALPN record of three bytes declaring
\* a value of n bytes, with a payload after the header.
WrapTlvLens == {0, 1, U16 - 3, U16 - 2, U16 - 1}

WrapV2Inputs ==
    [class : {"valid"},
     H : {HdrV2(TCPv4, v2AddrLenInet + v2TlvHeaderLen,
                Block(v2AddrLenInet) \o <<1>> \o PutUint16(n)) : n \in WrapTlvLens},
     P : {<<112, 105, 110>>}]

CodecInputs ==
    WrapV2Inputs \cup LocalV2Inputs \cup LongV1Inputs \cup RoundTripInputs \cup PaddedV2Inputs \cup ShortV2Inputs \cup BigV2Inputs
    \cup PortV1Inputs \cup UnknownV1Inputs \cup AddrV1Inputs

\* Where the transport cuts a stream handed to the parser.
CodecCuts == {0, 1, 13, 16, 20}

InitCodec ==
    /\ input \in CodecInputs
    /\ policy = PolicyUSE
    /\ \E cut \in CodecCuts : reader = NewReader(PeerSegments(input.H \o input.P, cut))
    /\ header = NilHeader
    /\ once = "fresh"
    /\ pc = [t \in Callers |-> "idle"]
    /\ op = [t \in Callers |-> "Read"]
    /\ rlen = [t \in Callers |-> BufSize]
    /\ lerr = [t \in Callers |-> "nil"]
    /\ calls = 0
    /\ parses = 0
    /\ outcome = NoOutcome
    /\ overlapped = FALSE
    /\ log = <<>>
    /\ Untimed
    /\ NoServer

\* Read(reader) called on the stream.
CodecParse ==
    /\ pc[1] = "idle"
    /\ parses = 0
    /\ \E res \in {Read(reader)} :
           /\ reader' = res.r
           /\ outcome' = [err |-> res.err, parsed |-> res.hdr, by |-> "Read"]
    /\ parses' = 1
    /\ pc' = [pc EXCEPT ![1] = "after"]
    /\ UNCHANGED <<input, policy, header, once, op, rlen, lerr, calls, overlapped, log>>
    /\ UNCHANGED tvars
    /\ UNCHANGED svars

\* The caller reads on from the same reader after the parse.
CodecReadOn ==
    /\ pc[1] = "after"
    /\ \E got \in {bufRead(reader, rlen[1])} :
           /\ reader' = got.r
           /\ log' = Append(log, [op |-> "Read", data |-> got.data,
                                  err |-> IF got.eof THEN "EOF" ELSE "nil",
                                  addr |-> TCPAddr(<<>>, 0)])
           /\ pc' = [pc EXCEPT ![1] = IF got.eof THEN "done" ELSE "after"]
    /\ UNCHANGED <<input, policy, header, once, op, rlen, lerr, calls, parses, outcome, overlapped>>
    /\ UNCHANGED tvars
    /\ UNCHANGED svars

\* The header just parsed is kept and written out with Format, and the
\* bytes written become the stream of a new reader.
CodecFormat ==
    /\ pc[1] = "after"
    /\ log = <<>>
    /\ outcome.err = "nil"
    /\ input.class # "written"
    /\ header' = outcome.parsed
    /\ input' = [class |-> "written", H |-> Format(outcome.parsed), P |-> <<>>]
    /\ reader' = NewReader(<<Format(outcome.parsed)>>)
    /\ parses' = 0
    /\ outcome' = NoOutcome
    /\ pc' = [pc EXCEPT ![1] = "idle"]
    /\ UNCHANGED <<policy, once, op, rlen, lerr, calls, overlapped, log>>
    /\ UNCHANGED tvars
    /\ UNCHANGED svars

NextCodec == CodecParse \/ CodecReadOn \/ CodecFormat

SpecCodec == InitCodec /\ [][NextCodec]_vars

\* The first call is a Read that has not returned yet.
FirstReadPending == calls >= 1 /\ log = <<>>

\* The first call was a Read and has returned.
FirstReadReturned == log # <<>>

\* ------------------------------------------------------------ observations
Stream == input.H \o input.P

\* The bytes not yet handed out: buffered ones, then those still in transit.
Remaining(r) == r.buf \o Flatten(r.segs)

\* The parser has run on the stream and nothing was read since.
JustParsed == parses = 1 /\ log = <<>>

\* Bytes taken out of the reader so far.
Consumed == Len(Stream) - Len(Remaining(reader))

HasSignature(s) == HasPrefix(s, SIGV1) \/ HasPrefix(s, SIGV2)

ReadIdx == {i \in 1..Len(log) : log[i].op = "Read"}

AddrIdx == {i \in 1..Len(log) : log[i].op # "Read"}

RECURSIVE DataOf(_)
DataOf(l) == IF l = <<>> THEN <<>> ELSE Head(l).data \o DataOf(Tail(l))

\* The concatenation of the bytes the Reads have returned so far.
Delivered == DataOf(log)

FirstRead == CHOOSE i \in ReadIdx : \A k \in ReadIdx : i <= k

\* Errors parseVersion1 and parseVersion2 return for a malformed header.
IsCodecError(e) == e \notin {"nil", "EOF", "ErrSuperfluousProxyHeader", "ErrNoProxyProtocol"}

\* ------------------------------------------------------------------ claims

\* C1: a valid header H followed by payload P, accepted by the policy: the
\* bytes the Reads return, concatenated, are a prefix of P at every moment and
\* are P once a Read has reported the end of the stream, whatever the split.
C1_PassthroughIntegrity ==
    (input.class = "valid" /\ policy # PolicyREJECT) =>
        /\ HasPrefix(input.P, Delivered)
        /\ (\E i \in ReadIdx : log[i].err = "EOF") => Delivered = input.P

\* C2: under every interleaving of first calls to Read, LocalAddr and
\* RemoteAddr the header parser runs at most once, and has run exactly once
\* by the time any call returns.
C2_ParserRunsOnce ==
    /\ parses <= 1
    /\ (log # <<>> => parses = 1)
    /\ (once = "done" => parses = 1)

\* A Read and a RemoteAddr are in flight together, the parser has run, and
\* the other caller is still at the barrier.
C2_Witness ==
    /\ parses = 1
    /\ calls = 2
    /\ log = <<>>
    /\ \E t, u \in Callers :
           /\ op[t] = "Read" /\ pc[t] = "after"
           /\ op[u] = "RemoteAddr" /\ pc[u] = "once"

\* C3: when the head of the stream is not a complete v1 or v2 signature the
\* header step ends with ErrNoProxyProtocol and has consumed nothing: what was
\* read afterwards plus what is left is the stream from its first byte.
C3_NoSignatureConsumesNothing ==
    (once = "done" /\ ~HasSignature(Stream)) =>
        /\ outcome.err = "ErrNoProxyProtocol"
        /\ Delivered \o Remaining(reader) = Stream

\* Read has refused a stream that starts like a signature but is none, and a
\* following read has returned bytes.
C3_Witness ==
    /\ once = "done"
    /\ ~HasSignature(Stream)
    /\ Stream # <<>> /\ Stream[1] \in {SIGV1[1], SIGV2[1]}
    /\ outcome.err = "ErrNoProxyProtocol"
    /\ Delivered # <<>>

\* C4: policy USE and no signature at the head of the stream: no Read fails
\* (the end of the stream aside) and the Reads deliver the stream from its
\* first byte.
C4_PassthroughWithoutHeader ==
    (policy = PolicyUSE /\ ~HasSignature(Stream)) =>
        /\ \A i \in ReadIdx : log[i].err \in {"nil", "EOF"}
        /\ HasPrefix(Stream, Delivered)

\* C5: an address query returns the header's address exactly when a header
\* was accepted, its command is PROXY and the policy is not IGNORE, and the
\* socket's own address otherwise.
C5_AddrOverride ==
    LET h == outcome.parsed
        useHeader == /\ outcome.err = "nil"
                     /\ h # NilHeader
                     /\ h.command = CmdPROXY
                     /\ policy # PolicyIGNORE
    IN  \A i \in AddrIdx :
            log[i].addr =
                IF log[i].op = "RemoteAddr"
                THEN (IF useHeader THEN HeaderRemoteAddr(h) ELSE connRemoteAddr)
                ELSE (IF useHeader THEN HeaderLocalAddr(h) ELSE connLocalAddr)

\* C6: when LocalAddr or RemoteAddr ran the header step and the parse failed,
\* every Read on the connection returns that error and no bytes (stated for
\* calls made one after the other).
C6_ReadSeesStoredError ==
    (/\ ~overlapped
     /\ outcome.by \in {"LocalAddr", "RemoteAddr"}
     /\ outcome.err \notin {"nil", "ErrSuperfluousProxyHeader"}) =>
        \A i \in ReadIdx : log[i].err = outcome.err /\ log[i].data = <<>>

\* C7: after a Read has returned the codec's error for a malformed header,
\* every later Read fails too and returns no bytes (stated for calls made one
\* after the other).
C7_UnusableAfterCodecError ==
    \A i, k \in ReadIdx :
        (~overlapped /\ i < k /\ IsCodecError(log[i].err)) =>
            (log[k].err \notin {"nil", "EOF"} /\ log[k].data = <<>>)

\* C8: policy REQUIRE and no signature at the head of the stream: the first
\* Read returns ErrNoProxyProtocol and no bytes (stated for calls made one
\* after the other).
C8_RequireRefusesMissingHeader ==
    (~overlapped /\ policy = PolicyREQUIRE /\ ~HasSignature(Stream) /\ ReadIdx # {}) =>
        (log[FirstRead].err = "ErrNoProxyProtocol" /\ log[FirstRead].data = <<>>)

\* C9: policy REJECT and a valid header at the head of the stream: the first
\* Read returns ErrSuperfluousProxyHeader and no bytes (stated for calls made
\* one after the other).
C9_RejectRefusesHeader ==
    (~overlapped /\ policy = PolicyREJECT /\ input.class = "valid" /\ ReadIdx # {}) =>
        (log[FirstRead].err = "ErrSuperfluousProxyHeader" /\ log[FirstRead].data = <<>>)

\* C10: policy IGNORE and a valid header: the header's bytes are consumed all
\* the same, so the Reads deliver bytes of the payload only, from its start.
C10_IgnoreStillConsumesHeader ==
    (policy = PolicyIGNORE /\ input.class = "valid") =>
        /\ \A i \in ReadIdx : log[i].err \in {"nil", "EOF"}
        /\ HasPrefix(input.P, Delivered)
        /\ (once = "done" => Delivered \o Remaining(reader) = input.P)

\* C11: when the policy of an accepted connection is SKIP, Accept returns the
\* raw connection: the header parser never runs on it, no Read fails (the end
\* of the stream aside) and the Reads deliver the stream from its first byte,
\* a PROXY header included.
C11_SkipReturnsRawConn ==
    policy = PolicySKIP =>
        /\ ~Accept(reader.segs, policy).wrapped
        /\ parses = 0
        /\ \A i \in ReadIdx : log[i].err \in {"nil", "EOF"}
        /\ HasPrefix(Stream, Delivered)

\* The later of two instants.
Later(a, b) == IF a >= b THEN a ELSE b

\* The user set a read deadline that falls before the header timeout would.
EarlierUserDeadline ==
    /\ calls >= 1
    /\ readDeadline # 0
    /\ readDeadline < started + proxyHeaderTimeout

\* C12: when the user has set a read deadline d earlier than the start of the
\* header read plus the header timeout, the deadline in force during the
\* header read is the earlier of the two, which is d, and the first Read is
\* never still waiting after d: it has returned by d (or at once, when it was
\* called after d).
C12_DeadlinePrecedence ==
    EarlierUserDeadline =>
        /\ headerReadDeadline(readDeadline, started, proxyHeaderTimeout)
               = Min(readDeadline, started + proxyHeaderTimeout)
        /\ FirstReadPending => now <= Later(readDeadline, started)
        /\ FirstReadReturned => log[1].at <= Later(readDeadline, started)

\* The first Read waited for a silent peer and was released by the user's
\* deadline, before the header timeout would have fallen, with an error.
C12_Witness ==
    /\ EarlierUserDeadline
    /\ FirstReadReturned
    /\ started < readDeadline
    /\ log[1].at = readDeadline
    /\ log[1].err = "ErrNoProxyProtocol"
    /\ ~PeerClosed

\* C13: with policy REQUIRE and a peer that sends no header, the first Read
\* is never still waiting later than the header timeout after it was called,
\* and it returns ErrNoProxyProtocol.
C13_RequireTimesOut ==
    (policy = PolicyREQUIRE /\ input.class = "none" /\ calls >= 1) =>
        /\ FirstReadPending => now <= started + proxyHeaderTimeout
        /\ FirstReadReturned =>
               /\ log[1].at <= started + proxyHeaderTimeout
               /\ log[1].err = "ErrNoProxyProtocol"

\* The peer has sent at least one byte.
PeerHasSent == Len(Flatten(peer.segs)) < Len(input.H \o input.P)

\* C14: when the peer sends the beginning of a v1 header and never the CRLF,
\* the first Read is never still waiting later than the header timeout after
\* it was called, and it returns an error.
C14_SlowLorisFails ==
    (input.class = "partial" /\ PeerHasSent /\ calls >= 1) =>
        /\ FirstReadPending => now <= started + proxyHeaderTimeout
        /\ FirstReadReturned =>
               /\ log[1].at <= started + proxyHeaderTimeout
               /\ log[1].err # "nil"

\* The longest v1 line, CRLF included.
v1MaxLine == 107

\* C15: parsing a v1 header takes at most 107 bytes out of the reader, and a
\* stream with the v1 signature and no line feed in its first 107 bytes makes
\* the parse fail with ErrVersion1HeaderTooLong.
C15_V1LineCap ==
    (JustParsed /\ HasPrefix(Stream, SIGV1)) =>
        /\ Consumed <= v1MaxLine
        /\ IndexByte(Take(Stream, v1MaxLine), 10) = 0
               => outcome.err = "ErrVersion1HeaderTooLong"

\* C16: for every valid header H, v1 or v2, of any command and transport,
\* parsing the bytes that writing H produces succeeds and yields a header
\* equal to H.
C16_RoundTrip ==
    (input.class = "written" /\ JustParsed) =>
        /\ outcome.err = "nil"
        /\ outcome.parsed = header

\* The length a v2 stream declares in its 15th and 16th bytes.
DeclaredLength == Stream[15] * 256 + Stream[16]

\* C17: after a successful parse of a v2 header declaring length L, exactly
\* 16 + L bytes have been taken out of the reader, for every command and
\* family and with padding after the address block, so that the next byte
\* read is the first one after the header.
C17_V2ConsumesWholeHeader ==
    (JustParsed /\ HasPrefix(Stream, SIGV2) /\ Len(Stream) >= 16 /\ outcome.err = "nil") =>
        /\ Consumed = 16 + DeclaredLength
        /\ Remaining(reader) = Drop(Stream, 16 + DeclaredLength)

\* The stream is a v2 PROXY header of a known family declaring less than the
\* address block of that family.
ShortDeclaredLength ==
    /\ HasPrefix(Stream, SIGV2)
    /\ Len(Stream) >= 16
    /\ Stream[13] = CmdPROXY
    /\ IsIPv4(Stream[14]) \/ IsIPv6(Stream[14]) \/ IsUnix(Stream[14])
    /\ DeclaredLength < addrBlockLen(Stream[14])

PortToken == Split(SubSeq(input.H, 1, Len(input.H) - 2), SEPARATOR)[5]

\* A token of decimal digits whose value is at most 65535.
IsPortNumber(tok) ==
    /\ tok # <<>>
    /\ \A i \in 1..Len(tok) : IsDigit(tok[i])
    /\ DecVal(tok) <= 65535

\* C20: in a v1 TCP4 or TCP6 line a port token is accepted only when it is a
\* decimal integer between 0 and 65535, and then the port of the parsed
\* header is the value of the token; any other token makes the parse fail
\* with ErrInvalidPortNumber.
C20_V1PortRange ==
    (JustParsed /\ input.class = "port") =>
        IF IsPortNumber(PortToken)
        THEN outcome.err = "nil" /\ outcome.parsed.sourcePort = DecVal(PortToken)
        ELSE outcome.err = "ErrInvalidPortNumber"

\* C21: a v1 line whose second token is UNKNOWN parses, whatever follows
\* before the CRLF, to a header with command LOCAL, transport UNSPEC and no
\* addresses, and the whole line is taken out of the reader.
C21_V1UnknownIsLocal ==
    (JustParsed /\ input.class = "unknown") =>
        /\ outcome.err = "nil"
        /\ outcome.parsed.version = 1
        /\ outcome.parsed.command = CmdLOCAL
        /\ outcome.parsed.transportProtocol = UNSPEC
        /\ outcome.parsed.sourceAddress = <<>>
        /\ outcome.parsed.destinationAddress = <<>>
        /\ Consumed = Len(input.H)

\* The tokens of the v1 line of the stream.
LineTokens == Split(SubSeq(input.H, 1, Len(input.H) - 2), SEPARATOR)

\* The literal is one of the family the protocol token names.
IsLiteralOf(protoToken, tok) ==
    IF protoToken = <<84, 67, 80, 52>> THEN ParseIP(tok).kind = "v4"
    ELSE ParseIP(tok).kind = "v6"

\* C22: a v1 TCP4 line is accepted only when both address tokens are IPv4
\* literals and a TCP6 line only when both are IPv6 literals, the header then
\* holding the two addresses; any other line fails with ErrInvalidAddress.
C22_V1AddressFamily ==
    (JustParsed /\ input.class = "addr") =>
        IF IsLiteralOf(LineTokens[2], LineTokens[3]) /\ IsLiteralOf(LineTokens[2], LineTokens[4])
        THEN /\ outcome.err = "nil"
             /\ outcome.parsed.sourceAddress = ParseIP(LineTokens[3]).ip
             /\ outcome.parsed.destinationAddress = ParseIP(LineTokens[4]).ip
        ELSE outcome.err = "ErrInvalidAddress"

\* The Accept calls that took a connection from the underlying listener.
Took == {j \in 1..Len(lst.returned) : lst.returned[j].for # 0}

\* C23: when the policy function answers an accepted connection with an
\* error other than ErrInvalidUpstream, Accept closes the raw connection and
\* returns a nil connection together with that error.
C23_PolicyErrorClosesConn ==
    \A j \in Took :
        lst.incoming[lst.returned[j].for] = "ErrOther" =>
            /\ lst.returned[j].conn = 0
            /\ lst.returned[j].err = "ErrOther"
            /\ lst.returned[j].for \in lst.closed

\* C24: when the policy function answers a connection with
\* ErrInvalidUpstream, no Accept call returns for that connection: the
\* connection is closed and the call goes on to the next one.
C24_InvalidUpstreamSkipped ==
    /\ \A j \in Took : lst.incoming[lst.returned[j].for] # "ErrInvalidUpstream"
    /\ \A i \in 1..lst.next : lst.incoming[i] = "ErrInvalidUpstream" => i \in lst.closed

RECURSIVE Pow2(_)
Pow2(n) == IF n = 0 THEN 1 ELSE 2 * Pow2(n - 1)

\* C25: before the retry after the k-th consecutive timeout error of Accept
\* the loop sleeps min(5 ms * 2^(k-1), 1 s): 5, 10, 20 ms and so on, the
\* count starting again only after an Accept that succeeded.
C25_AcceptBackoff ==
    \A i \in 1..Len(server.sleeps) :
        server.sleeps[i].d = Min(listenerRetryBaseDelay * Pow2(server.sleeps[i].k - 1), maxDelay)

Built == lib.fn = "NewHeaderFromConn" /\ lib.pc = "done"

NilIP(a) == a.net \in {"tcp", "udp"} /\ a.ip = <<>>

C27_MismatchIsLocalUnspec ==
    (/\ Built
     /\ \/ lib.arg.remote.net # lib.arg.local.net
        \/ NilIP(lib.arg.remote)
        \/ NilIP(lib.arg.local))
    => /\ ~lib.res.panic
       /\ lib.res.hdr.command = CmdLOCAL
       /\ lib.res.hdr.transportProtocol = UNSPEC

\* C28: decoding an SSL TLV of type 0x20 with at least 5 bytes of value
\* fails with ErrMalformedTLV exactly when the ClientSSL bit is set and no
\* version sub-TLV is present, or a version sub-TLV is empty or not ASCII, or
\* a CN sub-TLV is empty or not valid UTF-8; otherwise (no CN sub-TLV
\* included) it succeeds.
Decoded == lib.fn \in {"SSL", "TLV.SSL"} /\ lib.pc = "done"

SubOf(tp) == {k \in 1..Len(lib.arg.subs) : lib.arg.subs[k].Type = tp}

MalformedSSL ==
    \/ ClientSSL(lib.arg.client) /\ SubOf(PP2_SUBTYPE_SSL_VERSION) = {}
    \/ \E k \in SubOf(PP2_SUBTYPE_SSL_VERSION) :
           lib.arg.subs[k].Value = <<>> \/ ~isASCII(lib.arg.subs[k].Value)
    \/ \E k \in SubOf(PP2_SUBTYPE_SSL_CN) :
           lib.arg.subs[k].Value = <<>> \/ ~utf8Valid(lib.arg.subs[k].Value)

C28_SSLMalformedExactly ==
    Decoded => IF MalformedSSL THEN lib.res.err = "ErrMalformedTLV" ELSE lib.res.err = "nil"

\* C29: splitting a slab in which the 3-byte type/length header of a record
\* is incomplete, or the declared length of a record exceeds the bytes that
\* remain, returns ErrTruncatedTLV; and no split reads outside the slab.
SplitDone == lib.fn \in {"splitTLVs", "readTLVs"} /\ lib.pc = "done"

RECURSIVE SlabTruncated(_, _)
SlabTruncated(raw, i) ==
    IF i >= Len(raw) THEN FALSE
    ELSE IF Len(raw) - i < 3 THEN TRUE
    ELSE IF i + 3 + (raw[i + 2] * 256 + raw[i + 3]) > Len(raw) THEN TRUE
    ELSE SlabTruncated(raw, i + 3 + (raw[i + 2] * 256 + raw[i + 3]))

C29_TruncatedSlabRejected ==
    SplitDone =>
        /\ SlabTruncated(lib.arg.raw, 0) => ~lib.res.panic /\ lib.res.err = "ErrTruncatedTLV"
        /\ ~lib.res.panic => lib.res.read <= Len(lib.arg.raw)

\* C30: formatting a v2 header whose address block and TLVs together do not
\* fit the 16-bit length field fails with the overflow error, and a header
\* written without error declares the whole of its address block and TLVs.
Formatted == lib.fn = "Format" /\ lib.pc = "done"

AddrBlockOf(h) == IF h.transportProtocol = UNSPEC THEN 0 ELSE addrBlockLen(h.transportProtocol)

DeclaredOf(bytes) == IF Len(bytes) >= 16 THEN bytes[15] * 256 + bytes[16] ELSE 0 - 1

C30_FormatOverflow ==
    Formatted =>
        /\ AddrBlockOf(lib.arg.hdr) + lib.arg.tlvLen > U16 - 1
               => lib.res.err = "errUint16Overflow"
        /\ lib.res.err = "nil"
               => DeclaredOf(lib.res.bytes)
                      = AddrBlockOf(lib.arg.hdr) + lib.arg.tlvLen

\* C31: under REJECT with a header present, or REQUIRE with no header, only
\* the first Read on the connection returns the policy error; the Reads
\* that follow it return no error.
PolicyErrorCase ==
    \/ policy = PolicyREJECT /\ input.class = "valid"
    \/ policy = PolicyREQUIRE /\ input.class = "none"

PolicyError == IF policy = PolicyREJECT THEN "ErrSuperfluousProxyHeader" ELSE "ErrNoProxyProtocol"

\* The Reads that returned an error other than the end of the stream.
FailedReads == {i \in 1..Len(log) : log[i].op = "Read" /\ log[i].err \notin {"nil", "EOF"}}

ParsedLocal == JustParsed /\ outcome.err = "nil" /\ outcome.parsed.command = CmdLOCAL

LaterReads == 2..Len(log)

C33_HeaderTimeoutLifted ==
    (parses = 1 /\ once = "done") =>
        \A i \in LaterReads :
            log[i].err = "ErrTimeout" => readDeadline # 0 /\ log[i].at >= readDeadline

\* A second Read has returned bytes later than the header timeout after the
\* first Read began, on a connection with no user deadline.
C33_Witness ==
    /\ Len(log) = 2
    /\ log[1].err = "nil"
    /\ log[2].err = "nil" /\ log[2].data # <<>>
    /\ readDeadline = 0
    /\ log[2].at > started + proxyHeaderTimeout

\* C34: when the underlying reader returns an I/O error while the signature
\* is being read, ReadTimeout returns that error and not ErrNoProxyProtocol.
SignatureCutShort ==
    /\ Stream # SIGV1 /\ HasPrefix(SIGV1, Stream)
    /\ lib.arg.end = "broken"

C34_ReadErrorPropagates ==
    (lib.fn = "ReadTimeout" /\ lib.res.by = "read" /\ SignatureCutShort)
        => lib.res.e = "errReadIntentionallyBroken"

\* C38: after ReadTimeout has returned because its timer expired the parse
\* it started no longer reads from the reader, and the reader is never
\* accessed by the abandoned parse and by the caller at the same time.
C38_AbandonedParseStops ==
    (lib.fn = "ReadTimeout" /\ lib.res.by = "timer") => ~lib.late /\ ~lib.raced

\* C35: closing the server closes every listener a Serve call has
\* registered, under every interleaving of Serve and Close: once Close has
\* returned no registered listener is open, and none is registered later.
C35_CloseClosesListeners ==
    server.closed => ~(server.registered /\ server.lnOpen)

\* The server was closed while a Serve call had its listener registered.
C35_Witness == server.closed /\ server.registered /\ ~server.lnOpen /\ server.pc = "accept"

\* C37: the accept loop starts a connection handler only for a connection
\* that a successful Accept returned: after a temporary or timeout error no
\* handler is started, so serveConn is never called with a nil connection.
C37_HandlerOnlyForConn ==
    \A i \in 1..Len(server.spawned) : server.spawned[i] # "nil"

\* C36: the TLV split accepts every slab that is an exact concatenation of
\* type|length|value records, records of length 0 included at any position,
\* the last one too, and returns one TLV per record in the slab's order.
RECURSIVE SlabRecords(_, _)
SlabRecords(raw, i) ==
    IF i >= Len(raw) THEN <<>>
    ELSE <<[Type |-> raw[i + 1], Length |-> raw[i + 2] * 256 + raw[i + 3]]>>
         \o SlabRecords(raw, i + 3 + (raw[i + 2] * 256 + raw[i + 3]))

C36_SplitAcceptsExactSlab ==
    (lib.fn = "splitTLVs" /\ lib.pc = "done" /\ ~SlabTruncated(lib.arg.raw, 0)) =>
        /\ lib.res.err = "nil"
        /\ [k \in 1..Len(lib.res.tlvs) |->
               [Type |-> lib.res.tlvs[k].Type, Length |-> lib.res.tlvs[k].Length]]
           = SlabRecords(lib.arg.raw, 0)

\* C39: while walking the TLV region of a v2 header the parser consumes no
\* byte beyond the header's declared length: for every TLV length value in
\* 0..65535 the comparison with the remaining length and the subtraction
\* from it do not wrap around.
C39_TlvWalkStaysInHeader ==
    (/\ JustParsed
     /\ input \in WrapV2Inputs
     /\ outcome.err = "nil")
    => Consumed <= 16 + DeclaredLength

\* C40: the pipe listener never deadlocks: with any number of concurrent
\* ServeConn, Accept and Close calls, a Close that has been called
\* eventually returns, also when the 64-slot queue is full and no Accept is
\* pending.
C40_CloseReturns == (lib.pc["close"] = "lock") ~> (lib.pc["close"] = "idle")

====
